---- MODULE Spec2Model ----
(***************************************************************************)
(* A state-machine model of the riverraid game engine: the Game with its   *)
(* list of events, the World the handlers mutate, the timer table, the     *)
(* signal set, the custom drawings and the river map.                      *)
(*                                                                         *)
(* Keys.  Timer, drawing and signal keys are strings in the program.  The  *)
(* generated ones (Uuid::new_v4) are numbered 1, 2, 3, ... in the order    *)
(* they are generated; the ones a caller spells out are numbered below 0.  *)
(* Time.  Instant::now() is the variable now, a count of clock units.      *)
(***************************************************************************)
EXTENDS Integers, Sequences, FiniteSets, TLC

VARIABLES
    pc,        \* where the program is: "setup", "loop", "run", "drain", "tail", "done", "err"
    events,    \* Game.events, the active list
    idx,       \* run_events: index of the next element Vec::retain visits
    retained,  \* run_events: the elements Vec::retain has kept so far
    world,     \* Game.world
    now,       \* the monotonic clock read by Instant::now()
    log        \* history: one entry per trigger evaluation

vars == <<pc, events, idx, retained, world, now, log>>

----------------------------------------------------------------------------
(* Bounds of the model *)

MaxTicks == 4
MaxTime == 4
MaxEvents == 2

(* The terminal size handed to World::new *)
MaxC == 18
MaxL == 16

(* The most entities the world holds at once *)
MaxEntities == 1

(* The fuel World::new hands the player; the fuel drains by one per tick *)
InitialFuel == 1700

(* Keys spelled out by the caller *)
SigA == -1
NoTimer == -2

----------------------------------------------------------------------------
(* Finite maps (HashMap) and small helpers *)

EmptyMap == << >>

MapInsert(f, k, v) == [x \in (DOMAIN f) \cup {k} |-> IF x = k THEN v ELSE f[x]]

MapRemove(f, k) == [x \in (DOMAIN f) \ {k} |-> f[x]]

AbsDiff(a, b) == IF a < b THEN b - a ELSE a - b

----------------------------------------------------------------------------
(* u16 arithmetic.  With overflow checks on (the dev profile) an overflow   *)
(* panics; with them off (the release profile) it wraps.                   *)

U16 == 65536

WrapU16(x) == x % U16

FitsU16(x) == x >= 0 /\ x < U16

----------------------------------------------------------------------------
(* world/map.rs: the river *)

RiverPartNew(width, center_c) == [width |-> width, center_c |-> center_c]

RestorableFrom(v) == [value |-> v, solid_value |-> v]

Restore(r) == [r EXCEPT !.value = r.solid_value]

MapNew(max_c, max_l, min_width, max_width, change_rate, max_center_diff) ==
    [ max_c |-> max_c,
      max_l |-> max_l,
      next_point |-> max_l,
      river_parts |-> [i \in 1..max_l |-> RiverPartNew(max_width, max_c \div 2)],
      change_rate |-> change_rate,
      river_mode |-> RestorableFrom([kind |-> "Random", min_width |-> min_width,
                                     max_width |-> max_width,
                                     max_center_diff |-> max_center_diff]),
      target_river |-> RiverPartNew(max_width, max_c \div 2) ]

(* Map::front: the part of line 0, or "None" *)
Front(map) == IF Len(map.river_parts) = 0 THEN "None" ELSE map.river_parts[1]

(* The draws rng.gen_range can return for the mode; gen_range of an empty  *)
(* range panics, so an empty set here is a panic of from_map.              *)
RngWidths(map) ==
    LET m == map.river_mode.value IN
    IF m.kind \in {"Random", "ConstCenter"} THEN m.min_width .. (m.max_width - 1) ELSE {0}

RngCenters(map) ==
    LET m == map.river_mode.value IN
    IF m.kind \in {"Random", "ConstWidth"} THEN 0 .. (map.max_c - 1) ELSE {0}

(* An adjustment that lets the center get one column further away *)
AdjustCenterLoose(center_c, front_center_c, max_center_diff) ==
    IF AbsDiff(center_c, front_center_c) > max_center_diff
    THEN IF center_c < front_center_c
         THEN front_center_c - max_center_diff - 1
         ELSE front_center_c + max_center_diff + 1
    ELSE center_c

(* The center "adjusted to be not so far" from the front line's center *)
AdjustCenter(center_c, front_center_c, max_center_diff) ==
    IF AbsDiff(center_c, front_center_c) > max_center_diff
    THEN IF center_c < front_center_c
         THEN front_center_c - max_center_diff
         ELSE front_center_c + max_center_diff
    ELSE center_c

(* RiverPart::from_map with the two random draws rw (width) and rc (center) *)
FromMap(map, rw, rc) ==
    LET m == map.river_mode.value IN
    CASE m.kind = "Random" ->
            RiverPartNew(rw, AdjustCenter(rc, Front(map).center_c, m.max_center_diff))
      [] m.kind = "ConstWidth" ->
            RiverPartNew(m.width, AdjustCenter(rc, Front(map).center_c, m.max_center_diff))
      [] m.kind = "ConstCenter" -> RiverPartNew(rw, m.center_c)
      [] m.kind = "ConstWidthAndCenter" -> RiverPartNew(m.width, m.center_c)

FromMapPanics(map) ==
    \/ RngWidths(map) = {}
    \/ RngCenters(map) = {}
    \/ map.river_mode.value.kind \in {"Random", "ConstWidth"} /\ Len(map.river_parts) = 0

(* One smoothing step of a value toward its target: cur + (target - cur) * 0.1 *)
(* in f32, cast to u16 (truncated).  For u16 operands that is the floor of    *)
(* (9 * cur + target) / 10.                                                    *)
Smooth(cur, target) == (9 * cur + target) \div 10

DecideNext(map) ==
    RiverPartNew(Smooth(Front(map).width, map.target_river.width),
                 Smooth(Front(map).center_c, map.target_river.center_c))

(* Borders whose right end is not cut at the terminal's width *)
RiverBordersUnclamped(map, river) ==
    LET offset == river.width \div 2
        left_border == IF river.center_c >= offset THEN river.center_c - offset ELSE 0
    IN  [start |-> left_border, end |-> river.center_c + offset]

RiverBorders(map, river) ==
    LET offset == river.width \div 2
        left_border == IF river.center_c >= offset THEN river.center_c - offset ELSE 0
        right_border == river.center_c + offset
    IN  [start |-> left_border,
         end |-> IF right_border >= map.max_c THEN map.max_c ELSE right_border]

RiverBordersAt(map, line) == RiverBorders(map, map.river_parts[line + 1])

(* A border test that takes the right border as part of the river *)
IsInRiverClosed(map, loc) ==
    LET b == RiverBordersAt(map, loc.line) IN b.start <= loc.column /\ loc.column <= b.end

IsInRiver(map, loc) ==
    LET b == RiverBordersAt(map, loc.line) IN b.start <= loc.column /\ loc.column < b.end

(* A test that waits for the countdown to be at zero *)
RetargetAtZero(map) == map.next_point = 0

Retarget(map) == map.next_point <= map.change_rate

(* Map::update panics in from_map (an empty gen_range) or in decide_next   *)
(* (the window is empty after pop_back).                                   *)
MapUpdatePanics(map) ==
    \/ Retarget(map) /\ FromMapPanics(map)
    \/ Len(map.river_parts) <= 1

(* The map as a panic of Map::update leaves it: untouched when from_map    *)
(* panics, with its new target and its back line popped when decide_next   *)
(* finds the window empty                                                  *)
MapAtPanic(map, rw, rc) ==
    IF Retarget(map) /\ FromMapPanics(map) THEN map
    ELSE LET m1 == IF Retarget(map)
                   THEN [map EXCEPT !.target_river = FromMap(map, rw, rc),
                                    !.next_point = map.max_l]
                   ELSE map
         IN  [m1 EXCEPT !.river_parts = SubSeq(m1.river_parts, 1, Len(m1.river_parts) - 1)]

MapUpdate(map, rw, rc) ==
    LET m1 == IF Retarget(map)
              THEN [map EXCEPT !.target_river = FromMap(map, rw, rc), !.next_point = map.max_l]
              ELSE map
        popped == [m1 EXCEPT !.river_parts = SubSeq(m1.river_parts, 1, Len(m1.river_parts) - 1)]
        pushed == [popped EXCEPT !.river_parts = <<DecideNext(popped)>> \o popped.river_parts]
    IN  [pushed EXCEPT !.next_point =
            IF pushed.next_point >= pushed.change_rate
            THEN pushed.next_point - pushed.change_rate ELSE 0]

(* A mode change that also overwrites the stored baseline *)
ChangeRiverModeForGood(map, mode) == [map EXCEPT !.river_mode = RestorableFrom(mode)]

ChangeRiverMode(map, mode) == [map EXCEPT !.river_mode.value = mode]

RestoreRiverMode(map) == [map EXCEPT !.river_mode = Restore(map.river_mode)]

----------------------------------------------------------------------------
(* entities.rs: the player *)

LocationNew(column, line) == [column |-> column, line |-> line]

PlayerNew(loc, fuel) ==
    [ location |-> loc, status |-> "Alive", fuel |-> fuel, score |-> 0,
      traveled |-> 0, bullets |-> << >> ]

BulletNew(loc, energy) == [energy |-> energy, location |-> loc]

(* entities.rs: enemies and fuel depots.  An entity carries an id, its     *)
(* identity in the Vec, which the program does not store.                  *)
EnemyNew(armor) == [kind |-> "Enemy", armor |-> armor]

Fuel == [kind |-> "Fuel"]

EntityNew(id, loc, entity_type) ==
    [id |-> id, location |-> loc, status |-> "Alive", entity_type |-> entity_type]

(* Location::hit_with_margin *)
HitWithMargin(self, other, top, right, bottom, left) ==
    /\ (other.line > self.line \/ self.line - other.line <= bottom)
    /\ (self.line > other.line \/ other.line - self.line <= top)
    /\ (other.column > self.column \/ self.column - other.column <= left)
    /\ (self.column > other.column \/ other.column - self.column <= right)

(* Location::hit *)
Hit(self, other) == HitWithMargin(self, other, 0, 0, 0, 0)

----------------------------------------------------------------------------
(* world/mod.rs: the World *)

(* Besides the fields of the struct, the record carries the bookkeeping a   *)
(* handler advances while it runs: uuid (how many uuids Uuid::new_v4 has    *)
(* generated), eid (how many events have been created; an event's id is its *)
(* identity, as a closure's address is), nid (how many entities have been   *)
(* created), drawn (every drawing added so far, in order), panicked (a      *)
(* handler panicked) and tick_cap (the tick the model stops the loop at).   *)
WorldNew(maxc, maxl) ==
    [ elapsed_time |-> 0,
      elapsed_loops |-> 0,
      status |-> "Fluent",
      player |-> PlayerNew(LocationNew(maxc \div 2, maxl - 1), 1700),
      map |-> MapNew(maxc, maxl, 5, maxc \div 3, 2, 5),
      container |-> [lines |-> [start |-> 0, end |-> maxl],
                     columns |-> [start |-> 0, end |-> maxc]],
      entities |-> << >>,
      timers |-> EmptyMap,
      signals |-> {},
      custom_drawings |-> EmptyMap,
      enemies_armor |-> 1,
      enemy_spawn_probability |-> RestorableFrom(100),  \* 0.1, in thousandths
      fuel_spawn_probability |-> RestorableFrom(10),    \* 0.01, in thousandths
      new_events |-> << >>,
      uuid |-> 0,
      eid |-> 0,
      nid |-> 0,
      drawn |-> << >>,
      panicked |-> FALSE,
      tick_cap |-> MaxTicks ]

max_l(w) == w.container.lines.end

max_c(w) == w.container.columns.end

(* WorldTimer::new: the key is a fresh uuid, the start is Instant::now() *)
WorldTimerNew(key, duration, repeat, t) ==
    [key |-> key, duration |-> duration, repeat |-> repeat, instant |-> t]

(* An elapse test that is already true when exactly the duration passed *)
ElapsedAtLeast(timer, t) == t - timer.instant >= timer.duration

(* WorldTimer::elapsed at clock t *)
Elapsed(timer, t) == t - timer.instant > timer.duration

(* A timer check that does not restart a repeating timer *)
TimerElapsedNoReset(w, key, t) ==
    IF key \notin DOMAIN w.timers
    THEN [ret |-> "None", timers |-> w.timers]
    ELSE LET timer == w.timers[key] IN
         IF ~Elapsed(timer, t)
         THEN [ret |-> "SomeFalse", timers |-> w.timers]
         ELSE IF timer.repeat
              THEN [ret |-> "SomeTrue", timers |-> w.timers]
              ELSE [ret |-> "SomeTrue", timers |-> MapRemove(w.timers, key)]

(* A timer check that answers Some(true) for a key it does not find *)
TimerElapsedMissingTrue(w, key, t) ==
    IF key \notin DOMAIN w.timers
    THEN [ret |-> "SomeTrue", timers |-> w.timers]
    ELSE LET timer == w.timers[key] IN
         IF ~Elapsed(timer, t)
         THEN [ret |-> "SomeFalse", timers |-> w.timers]
         ELSE IF timer.repeat
              THEN [ret |-> "SomeTrue",
                    timers |-> [w.timers EXCEPT ![key].instant = t]]
              ELSE [ret |-> "SomeTrue", timers |-> MapRemove(w.timers, key)]

(* World::timer_elapsed at clock t: the returned Option and the table after *)
TimerElapsed(w, key, t) ==
    IF key \notin DOMAIN w.timers
    THEN [ret |-> "None", timers |-> w.timers]
    ELSE LET timer == w.timers[key] IN
         IF ~Elapsed(timer, t)
         THEN [ret |-> "SomeFalse", timers |-> w.timers]
         ELSE IF timer.repeat
              THEN [ret |-> "SomeTrue",
                    timers |-> [w.timers EXCEPT ![key].instant = t]]
              ELSE [ret |-> "SomeTrue", timers |-> MapRemove(w.timers, key)]

(* A signal check that reads the set and leaves the key in it *)
SignaledKeeps(w, signal_key) ==
    [ret |-> signal_key \in w.signals, signals |-> w.signals]

(* World::signaled: HashSet::remove, true iff the key was in the set *)
Signaled(w, signal_key) ==
    [ret |-> signal_key \in w.signals, signals |-> w.signals \ {signal_key}]

(* World::send_signal with Some(key); the default key of unwrap_or is      *)
(* generated and dropped.                                                  *)
SendSignal(w, signal_key) ==
    [w EXCEPT !.signals = w.signals \cup {signal_key}, !.uuid = w.uuid + 1]

AddRawTimer(w, timer) == [w EXCEPT !.timers = MapInsert(w.timers, timer.key, timer)]

(* World::reset_timer at clock t *)
ResetTimer(w, key, t) ==
    IF key \in DOMAIN w.timers THEN [w EXCEPT !.timers[key].instant = t] ELSE w

(* An event: the WorldEvent plus its identity (id), the tick it was        *)
(* registered in (born) and whether it went through World::add_event       *)
(* (deferred) or straight into Game.events.                                *)
WorldEventNew(id, trigger, is_continues, handler, born, deferred) ==
    [ id |-> id, trigger |-> trigger, is_continues |-> is_continues,
      handler |-> handler, born |-> born, deferred |-> deferred ]

(* World::add_event: the event goes to the pending queue new_events *)
WorldAddEvent(w, trigger, is_continues, handler) ==
    [w EXCEPT !.eid = w.eid + 1,
              !.new_events = Append(w.new_events,
                  WorldEventNew(w.eid + 1, trigger, is_continues, handler,
                                w.elapsed_loops, TRUE))]

(* World::add_timer(WorldTimer::new(duration, repeat), on_elapsed) *)
WorldAddTimer(w, duration, repeat, on_elapsed, t) ==
    LET key == w.uuid + 1
        timer == WorldTimerNew(key, duration, repeat, t)
        w1 == [w EXCEPT !.uuid = key]
        w2 == WorldAddEvent(w1, [kind |-> "TimerElapsed", arg |-> key], repeat, on_elapsed)
    IN  AddRawTimer(w2, timer)

(* World::add_drawing(drawing, None): the key is a fresh uuid *)
AddDrawing(w, message) ==
    LET key == w.uuid + 1 IN
    [w EXCEPT !.uuid = key,
              !.custom_drawings = MapInsert(w.custom_drawings, key, message),
              !.drawn = Append(w.drawn, [key |-> key, message |-> message])]

ClearDrawing(w, key) == [w EXCEPT !.custom_drawings = MapRemove(w.custom_drawings, key)]

(* A popup whose timer handler runs `after` and leaves the drawing *)
TempPopupNoClear(w, message, duration, after, t) ==
    LET w1 == AddDrawing(w, message)
    IN  WorldAddTimer(w1, duration, FALSE, after, t)

(* World::temp_popup: the drawing, and a one-shot timer whose handler      *)
(* clears the drawing and then runs `after`.                               *)
TempPopup(w, message, duration, after, t) ==
    LET w1 == AddDrawing(w, message)
        key == w1.uuid
    IN  WorldAddTimer(w1, duration, FALSE,
                      [kind |-> "PopupElapsed", key |-> key, after |-> after], t)

(* An advance that, finding no popup left, sends the signal itself *)
AdvanceSignalsWhenEmpty(w, popups, signal_key, t) ==
    IF Len(popups) = 0 THEN SendSignal(w, signal_key)
    ELSE LET rest == Tail(popups)
             handler == IF Len(rest) = 0
                        THEN [kind |-> "SendSignal", key |-> signal_key]
                        ELSE [kind |-> "Advance", popups |-> rest, signal_key |-> signal_key]
         IN  TempPopup(w, Head(popups).message, Head(popups).duration, handler, t)

(* fn advance of World::popup_series *)
Advance(w, popups, signal_key, t) ==
    IF Len(popups) = 0 THEN w
    ELSE LET rest == Tail(popups)
             handler == IF Len(rest) = 0
                        THEN [kind |-> "SendSignal", key |-> signal_key]
                        ELSE [kind |-> "Advance", popups |-> rest, signal_key |-> signal_key]
         IN  TempPopup(w, Head(popups).message, Head(popups).duration, handler, t)

(* World::popup_series *)
PopupSeries(w, popups, after, t) ==
    LET signal_key == w.uuid + 1
        w1 == [w EXCEPT !.uuid = signal_key]
        w2 == WorldAddEvent(w1, [kind |-> "Signal", arg |-> signal_key], FALSE, after)
    IN  Advance(w2, popups, signal_key, t)

----------------------------------------------------------------------------
(* events/triggers.rs: WorldEventTrigger::is_triggered at clock t.  The    *)
(* result is the boolean and the World after the check (the timer table    *)
(* and the signal set are behind a RefCell and the check changes them).    *)

(* A start test that is still true in the second tick *)
GameStartedFirstTwo(w) == w.elapsed_loops <= 1

(* WorldEventTrigger::GameStarted in is_triggered *)
GameStarted(w) == w.elapsed_loops <= 0

IsTriggered(trigger, w, t) ==
    CASE trigger.kind = "Always" -> [ret |-> TRUE, world |-> w]
      [] trigger.kind = "Traveled" ->
            [ret |-> w.player.traveled >= trigger.arg, world |-> w]
      [] trigger.kind = "TimerElapsed" ->
            LET r == TimerElapsed(w, trigger.arg, t) IN
            [ret |-> (r.ret = "SomeTrue"), world |-> [w EXCEPT !.timers = r.timers]]
      [] trigger.kind = "GameStarted" -> [ret |-> GameStarted(w), world |-> w]
      [] trigger.kind = "DrawingExists" ->
            [ret |-> trigger.arg \in DOMAIN w.custom_drawings, world |-> w]
      [] trigger.kind = "Signal" ->
            LET r == Signaled(w, trigger.arg) IN
            [ret |-> r.ret, world |-> [w EXCEPT !.signals = r.signals]]

----------------------------------------------------------------------------
(* Handlers.  A handler is a closure over the World; the model holds it as  *)
(* a record naming the code of the closure (kind) and what it captured.    *)

Panic(w) == [w EXCEPT !.panicked = TRUE]

(* Player::go_up and Player::go_down *)
PlayerGoUp(w, overflow_checks) ==
    LET p == w.player IN
    IF ~FitsU16(p.traveled + 1) /\ overflow_checks THEN Panic(w)
    ELSE [w EXCEPT !.player.traveled = WrapU16(p.traveled + 1),
                   !.player.location.line = IF p.location.line >= 1
                                            THEN p.location.line - 1 ELSE 0]

PlayerGoDown(w, overflow_checks) ==
    LET p == w.player IN
    IF (~FitsU16(p.traveled - 1) \/ ~FitsU16(p.location.line + 1)) /\ overflow_checks
    THEN Panic(w)
    ELSE [w EXCEPT !.player.traveled = WrapU16(p.traveled - 1 + U16),
                   !.player.location.line = WrapU16(p.location.line + 1)]

(* A keyboard handler that fires whether or not a bullet is in flight *)
KeyboardFiresAnyway(w, key, overflow_checks) ==
    LET p == w.player
        alive == p.status = "Alive"
    IN
    CASE key = "up" /\ alive /\ p.location.line > 1 -> PlayerGoUp(w, overflow_checks)
      [] key = "down" /\ alive /\ p.location.line < max_l(w) - 1 ->
            PlayerGoDown(w, overflow_checks)
      [] key = "left" /\ alive /\ p.location.column > 1 ->
            [w EXCEPT !.player.location.column = p.location.column - 1]
      [] key = "right" /\ alive /\ p.location.column < max_c(w) - 1 ->
            [w EXCEPT !.player.location.column = p.location.column + 1]
      [] key = "q" -> [w EXCEPT !.player.status = "Quit"]
      [] key = "p" -> [w EXCEPT !.status = IF w.status = "Fluent" THEN "Solid" ELSE "Fluent"]
      [] key = "space" /\ alive ->
            [w EXCEPT !.player.bullets =
                Append(p.bullets, BulletNew(p.location, max_l(w) \div 4))]
      [] OTHER -> w

(* keyboard_events with the key the poll returned ("none": no key event, or *)
(* one the match ignores)                                                  *)
Keyboard(w, key, overflow_checks) ==
    LET p == w.player
        alive == p.status = "Alive"
    IN
    CASE key = "up" /\ alive /\ p.location.line > 1 -> PlayerGoUp(w, overflow_checks)
      [] key = "down" /\ alive /\ p.location.line < max_l(w) - 1 ->
            PlayerGoDown(w, overflow_checks)
      [] key = "left" /\ alive /\ p.location.column > 1 ->
            [w EXCEPT !.player.location.column = p.location.column - 1]
      [] key = "right" /\ alive /\ p.location.column < max_c(w) - 1 ->
            [w EXCEPT !.player.location.column = p.location.column + 1]
      [] key = "q" -> [w EXCEPT !.player.status = "Quit"]
      [] key = "p" -> [w EXCEPT !.status = IF w.status = "Fluent" THEN "Solid" ELSE "Fluent"]
      [] key = "space" /\ alive /\ Len(p.bullets) = 0 ->
            [w EXCEPT !.player.bullets =
                Append(p.bullets, BulletNew(p.location, max_l(w) \div 4))]
      [] OTHER -> w

(* u16 addition to a player counter: a panic under overflow checks, a wrap *)
(* otherwise                                                               *)
AddScore(w, n, overflow_checks) ==
    IF ~FitsU16(w.player.score + n) /\ overflow_checks THEN Panic(w)
    ELSE [w EXCEPT !.player.score = WrapU16(w.player.score + n)]

AddFuel(w, n, overflow_checks) ==
    IF ~FitsU16(w.player.fuel + n) /\ overflow_checks THEN Panic(w)
    ELSE [w EXCEPT !.player.fuel = WrapU16(w.player.fuel + n)]

(* A status check that declares the player Alive when nothing is wrong *)
PlayerStatusRevives(w) ==
    IF ~IsInRiver(w.map, w.player.location)
    THEN [w EXCEPT !.player.status = "DeadGround"]
    ELSE [w EXCEPT !.player.status = IF w.player.fuel = 0 THEN "DeadFuel" ELSE "Alive"]

(* A status check that looks at the fuel before the ground *)
PlayerStatusFuelFirst(w) ==
    IF w.player.fuel = 0
    THEN [w EXCEPT !.player.status = "DeadFuel"]
    ELSE IF ~IsInRiver(w.map, w.player.location)
         THEN [w EXCEPT !.player.status = "DeadGround"]
         ELSE w

(* PlayerStatusUpdater::handle *)
PlayerStatusUpdate(w) ==
    IF ~IsInRiver(w.map, w.player.location)
    THEN [w EXCEPT !.player.status = "DeadGround"]
    ELSE IF w.player.fuel = 0
         THEN [w EXCEPT !.player.status = "DeadFuel"]
         ELSE w

(* update_entities_status, the retain at its start *)
PurgeDead(entities) ==
    SelectSeq(entities, LAMBDA e : ~(e.entity_type.kind = "Enemy" /\ e.status = "Dead"))

(* A match that does not look at the entity's status before the contact *)
ContactAnyStatus(w, i, overflow_checks) ==
    LET e == w.entities[i] IN
    CASE Hit(w.player.location, e.location) ->
            IF e.entity_type.kind = "Enemy"
            THEN [w EXCEPT !.player.status = "DeadEnemy"]
            ELSE AddFuel([w EXCEPT !.entities[i].status = "DeadBody"], 200,
                         overflow_checks)
      [] e.status = "DeadBody" -> [w EXCEPT !.entities[i].status = "Dead"]
      [] OTHER -> w

(* update_entities_status, the match on the status of entity i *)
Contact(w, i, overflow_checks) ==
    LET e == w.entities[i] IN
    CASE e.status = "Alive" /\ Hit(w.player.location, e.location) ->
            IF e.entity_type.kind = "Enemy"
            THEN [w EXCEPT !.player.status = "DeadEnemy"]
            ELSE AddFuel([w EXCEPT !.entities[i].status = "DeadBody"], 200,
                         overflow_checks)
      [] e.status = "DeadBody" -> [w EXCEPT !.entities[i].status = "Dead"]
      [] OTHER -> w

(* A bullet hit that scores on every hit of an enemy, whatever armor is    *)
(* left                                                                    *)
BulletHitAlwaysScores(w, i, overflow_checks) ==
    LET e == w.entities[i] IN
    IF e.entity_type.kind = "Enemy"
    THEN IF e.entity_type.armor = 0 /\ overflow_checks THEN Panic(w)
         ELSE LET armor == WrapU16(e.entity_type.armor - 1 + U16)
                  w1 == [w EXCEPT !.entities[i].entity_type.armor = armor]
              IN  AddScore(IF armor <= 0 THEN [w1 EXCEPT !.entities[i].status = "DeadBody"]
                           ELSE w1, 10, overflow_checks)
    ELSE AddScore([w EXCEPT !.entities[i].status = "DeadBody"], 20, overflow_checks)

(* update_entities_status, the body of the loop over the bullets for a     *)
(* bullet within the margin of entity i                                    *)
BulletHit(w, i, overflow_checks) ==
    LET e == w.entities[i] IN
    IF e.entity_type.kind = "Enemy"
    THEN IF e.entity_type.armor = 0 /\ overflow_checks THEN Panic(w)
         ELSE LET armor == WrapU16(e.entity_type.armor - 1 + U16)
                  w1 == [w EXCEPT !.entities[i].entity_type.armor = armor]
              IN  IF armor <= 0
                  THEN AddScore([w1 EXCEPT !.entities[i].status = "DeadBody"], 10,
                                overflow_checks)
                  ELSE w1
    ELSE AddScore([w EXCEPT !.entities[i].status = "DeadBody"], 20, overflow_checks)

RECURSIVE Bullets(_, _, _, _)
(* The loop over the bullets in reverse, from bullet j down, for entity i *)
Bullets(w, i, j, overflow_checks) ==
    IF j = 0 \/ w.panicked THEN w
    ELSE LET hit == HitWithMargin(w.player.bullets[j].location,
                                  w.entities[i].location, 1, 0, 1, 0)
         IN  Bullets(IF hit THEN BulletHit(w, i, overflow_checks) ELSE w,
                     i, j - 1, overflow_checks)

RECURSIVE Entities(_, _, _)
(* The loop over the entities in reverse, from entity i down *)
Entities(w, i, overflow_checks) ==
    IF i = 0 \/ w.panicked THEN w
    ELSE LET w1 == Contact(w, i, overflow_checks)
             w2 == IF w1.panicked THEN w1
                   ELSE Bullets(w1, i, Len(w1.player.bullets), overflow_checks)
         IN  Entities(w2, i - 1, overflow_checks)

(* update_entities_status *)
UpdateEntitiesStatus(w, overflow_checks) ==
    LET w1 == [w EXCEPT !.entities = PurgeDead(w.entities)]
    IN  Entities(w1, Len(w1.entities), overflow_checks)

(* A move that keeps an entity one line past the last one *)
MoveEntitiesKeepsPast(w) ==
    LET moved == [i \in 1..Len(w.entities) |->
                    [w.entities[i] EXCEPT !.location.line = @ + 1]]
    IN  [w EXCEPT !.entities =
            SelectSeq(moved, LAMBDA e : e.location.line <= w.container.lines.end)]

(* move_entities *)
MoveEntities(w) ==
    LET moved == [i \in 1..Len(w.entities) |->
                    [w.entities[i] EXCEPT !.location.line = @ + 1]]
    IN  [w EXCEPT !.entities =
            SelectSeq(moved, LAMBDA e : e.location.line < w.container.lines.end)]

(* A move that leaves the bullet's energy as it was *)
MoveBulletsKeepsEnergy(w) ==
    LET flying == SelectSeq(w.player.bullets,
                            LAMBDA b : ~(b.energy = 0 \/ b.location.line < 2))
        moved == [i \in 1..Len(flying) |->
                    [flying[i] EXCEPT !.location.line = @ - 2]]
    IN  [w EXCEPT !.player.bullets =
            SelectSeq(moved, LAMBDA b : IsInRiver(w.map, b.location))]

(* move_bullets *)
MoveBullets(w) ==
    LET flying == SelectSeq(w.player.bullets,
                            LAMBDA b : ~(b.energy = 0 \/ b.location.line < 2))
        moved == [i \in 1..Len(flying) |->
                    [flying[i] EXCEPT !.location.line = @ - 2, !.energy = @ - 1]]
    IN  [w EXCEPT !.player.bullets =
            SelectSeq(moved, LAMBDA b : IsInRiver(w.map, b.location))]

(* create_random_entities with the draws of the random generator *)
CreateRandomEntities(w, inp) ==
    LET w1 == IF inp.fuel_chance
              THEN [w EXCEPT !.entities = Append(@,
                        EntityNew(w.nid + 1, LocationNew(inp.fuel_c, 0), Fuel)),
                             !.nid = @ + 1]
              ELSE w
    IN  IF inp.enemy_chance
        THEN [w1 EXCEPT !.entities = Append(@,
                  EntityNew(w1.nid + 1, LocationNew(inp.enemy_c, 0),
                            EnemyNew(w.enemies_armor))),
                        !.nid = @ + 1]
        ELSE w1

(* The handler of the GameStarted event, up to its call of popup_series *)
Opening(w) ==
    [w EXCEPT !.enemy_spawn_probability.value = 0,
              !.fuel_spawn_probability.value = 0,
              !.map = ChangeRiverMode(w.map,
                         [kind |-> "ConstWidthAndCenter", width |-> max_c(w) \div 2,
                          center_c |-> max_c(w) \div 2])]

(* The trailing handler of the opening's popup series, up to its call of   *)
(* add_timer                                                               *)
OpeningEnd(w) ==
    [w EXCEPT !.map = RestoreRiverMode(w.map),
              !.fuel_spawn_probability = Restore(@),
              !.enemy_spawn_probability = Restore(@)]

(* The closure that drains the fuel *)
FuelDrain(w) == IF w.player.fuel >= 1 THEN [w EXCEPT !.player.fuel = @ - 1] ELSE w

(* The closure that counts the lines travelled *)
TraveledInc(w, overflow_checks) ==
    IF ~FitsU16(w.player.traveled + 1) /\ overflow_checks THEN Panic(w)
    ELSE [w EXCEPT !.player.traveled = WrapU16(@ + 1)]

(* What a handler's run draws from outside: the key pressed, the build's   *)
(* overflow checks, the two random draws of the map, the draws of          *)
(* create_random_entities.                                                 *)
NoInput == [key |-> "none", overflow_checks |-> TRUE, rw |-> 0, rc |-> 0,
            fuel_chance |-> FALSE, fuel_c |-> 0, enemy_chance |-> FALSE, enemy_c |-> 0]

RECURSIVE Handle(_, _, _, _)
(* EventHandler::handle: the World after handler h ran on w at clock t *)
Handle(h, w, t, inp) ==
    CASE h.kind = "LeaveAlone" -> w
      [] h.kind = "MapUpdater" ->
            IF MapUpdatePanics(w.map)
            THEN Panic([w EXCEPT !.map = MapAtPanic(w.map, inp.rw, inp.rc)])
            ELSE [w EXCEPT !.map = MapUpdate(w.map, inp.rw, inp.rc)]
      [] h.kind = "Keyboard" -> Keyboard(w, inp.key, inp.overflow_checks)
      [] h.kind = "SendSignal" -> SendSignal(w, h.key)
      [] h.kind = "AddEvent" -> WorldAddEvent(w, h.trigger, h.is_continues, h.handler)
      [] h.kind = "AddTimer" -> WorldAddTimer(w, h.duration, h.repeat, h.after, t)
      [] h.kind = "TempPopup" -> TempPopup(w, h.message, h.duration, h.after, t)
      [] h.kind = "PopupSeries" -> PopupSeries(w, h.popups, h.after, t)
      [] h.kind = "PopupElapsed" -> Handle(h.after, ClearDrawing(w, h.key), t, inp)
      [] h.kind = "Advance" -> Advance(w, h.popups, h.signal_key, t)
      [] h.kind = "PlayerStatusUpdater" -> PlayerStatusUpdate(w)
      [] h.kind = "UpdateEntitiesStatus" -> UpdateEntitiesStatus(w, inp.overflow_checks)
      [] h.kind = "CreateRandomEntities" -> CreateRandomEntities(w, inp)
      [] h.kind = "MoveEntities" -> MoveEntities(w)
      [] h.kind = "MoveBullets" -> MoveBullets(w)
      [] h.kind = "FuelDrain" -> FuelDrain(w)
      [] h.kind = "TraveledInc" -> TraveledInc(w, inp.overflow_checks)
      [] h.kind = "Opening" ->
            PopupSeries(Opening(w), h.popups,
                        [kind |-> "OpeningEnd", every |-> h.every], t)
      [] h.kind = "OpeningEnd" ->
            WorldAddTimer(OpeningEnd(w), h.every, TRUE, [kind |-> "ScoreTimer"], t)
      [] h.kind = "ScoreTimer" -> AddScore(w, 10, inp.overflow_checks)


RECURSIVE Innermost(_)
(* The handler a popup's timer handler ends in *)
Innermost(h) == IF h.kind = "PopupElapsed" THEN Innermost(h.after) ELSE h

(* The keys the input collaborator delivers in this model *)
Keys == {"none", "q", "p"}

(* The keys keyboard_events matches *)
AllKeys == {"none", "q", "p", "up", "down", "left", "right", "space"}

(* is_the_chance: rng.gen::<f32>() < probability, for a probability below  *)
(* 1; the draw is in [0, 1), so at probability 0 it never is.              *)
Chances(probability) == IF probability > 0 THEN BOOLEAN ELSE {FALSE}

(* The draws create_random_entities can make: the two chances, a column by *)
(* gen_range over the borders of line 0 (its first and its last value      *)
(* here); no more than MaxEntities entities are held at once.              *)
SpawnDraws(w) ==
    LET b == RiverBordersAt(w.map, 0)
        room == MaxEntities - Len(w.entities)
        cols == IF b.start < b.end THEN {b.start, b.end - 1} ELSE {}
    IN  {NoInput} \cup
        {[NoInput EXCEPT !.fuel_chance = f, !.fuel_c = c, !.enemy_chance = e, !.enemy_c = c] :
            <<f, e, c>> \in
               {d \in Chances(w.fuel_spawn_probability.value)
                         \X Chances(w.enemy_spawn_probability.value) \X cols :
                   (IF d[1] THEN 1 ELSE 0) + (IF d[2] THEN 1 ELSE 0) \in 1..room}}

(* The inputs a run of handler h on w can draw *)
Inputs(h, w) ==
    LET k == Innermost(h).kind IN
    CASE k = "Keyboard" ->
            {[NoInput EXCEPT !.key = key, !.overflow_checks = oc] :
                key \in Innermost(h).keys, oc \in BOOLEAN}
      [] k \in {"UpdateEntitiesStatus", "TraveledInc", "ScoreTimer"} ->
            {[NoInput EXCEPT !.overflow_checks = oc] : oc \in BOOLEAN}
      [] k = "CreateRandomEntities" -> SpawnDraws(w)
      [] k = "MapUpdater" /\ Retarget(w.map) /\ ~FromMapPanics(w.map) ->
            {[NoInput EXCEPT !.rw = rw, !.rc = rc] :
                rw \in RngWidths(w.map), rc \in RngCenters(w.map)}
      [] OTHER -> {NoInput}

----------------------------------------------------------------------------
(* The events a caller registers before the loop starts *)

Trigger(kind, arg) == [kind |-> kind, arg |-> arg]

LeaveAlone == [kind |-> "LeaveAlone"]

Popups == << [message |-> "Warmup", duration |-> 0],
             [message |-> "Ready !!", duration |-> 1] >>

(* An event a caller registers: trigger, is_continues, handler *)
KeyboardEvent == <<Trigger("Always", 0), TRUE, [kind |-> "Keyboard", keys |-> Keys]>>

SendOnce == <<Trigger("Always", 0), FALSE, [kind |-> "SendSignal", key |-> SigA]>>

SendAlways == <<Trigger("Always", 0), TRUE, [kind |-> "SendSignal", key |-> SigA]>>

OnSignalOnce == <<Trigger("Signal", SigA), FALSE, LeaveAlone>>

OnSignalAlways == <<Trigger("Signal", SigA), TRUE, LeaveAlone>>

OnNoTimer == <<Trigger("TimerElapsed", NoTimer), FALSE, LeaveAlone>>

AddsTimerOnce ==
    <<Trigger("Always", 0), FALSE,
      [kind |-> "AddTimer", duration |-> 1, repeat |-> FALSE, after |-> LeaveAlone]>>

AddsEventOnce ==
    <<Trigger("Always", 0), FALSE,
      [kind |-> "AddEvent", trigger |-> Trigger("Always", 0), is_continues |-> FALSE,
       handler |-> LeaveAlone]>>

AddsStartedEvent ==
    <<Trigger("Always", 0), FALSE,
      [kind |-> "AddEvent", trigger |-> Trigger("GameStarted", 0), is_continues |-> FALSE,
       handler |-> LeaveAlone]>>

StartsPopupSeries ==
    <<Trigger("GameStarted", 0), FALSE,
      [kind |-> "PopupSeries", popups |-> Popups, after |-> LeaveAlone]>>

ShowsPopup ==
    <<Trigger("Always", 0), FALSE,
      [kind |-> "TempPopup", message |-> "More enemies ...", duration |-> 0,
       after |-> LeaveAlone]>>

StartsEmptySeries ==
    <<Trigger("Always", 0), FALSE,
      [kind |-> "PopupSeries", popups |-> << >>, after |-> LeaveAlone]>>

(* The events each client of the engine chooses from *)
DispatchEvents ==
    {KeyboardEvent, AddsEventOnce, AddsTimerOnce, StartsPopupSeries}

SignalEvents == {KeyboardEvent, SendOnce, SendAlways, OnSignalOnce, OnSignalAlways}

TimerEvents == {KeyboardEvent, OnNoTimer}

PopupEvents == {KeyboardEvent, StartsPopupSeries, ShowsPopup}

StartEvents == {KeyboardEvent, StartsPopupSeries, AddsStartedEvent}

EmptySeriesEvents == {KeyboardEvent, StartsEmptySeries, ShowsPopup}

(* The timers a client sets up: duration, repeat, handler *)
Timers == { <<1, FALSE, LeaveAlone>>, <<1, TRUE, LeaveAlone>> }

----------------------------------------------------------------------------
(* game.rs: the Game *)

(* MapUpdater: the event Game::new registers (setup_basic_events) *)
MapUpdater ==
    WorldEventNew(1, Trigger("Always", 0), TRUE, [kind |-> "MapUpdater"], 0, FALSE)

(* Game::new *)
Init ==
    /\ pc = "setup"
    /\ events = <<MapUpdater>>
    /\ idx = 0
    /\ retained = << >>
    /\ world = [WorldNew(MaxC, MaxL) EXCEPT !.eid = 1]
    /\ now = 0
    /\ log = << >>

(* Game::add_event / Game::setup_event of an event: straight into events *)
GameAddEvent(universe, max) ==
    /\ pc = "setup"
    /\ Len(events) <= max
    /\ \E e \in universe :
          /\ events' = Append(events,
                 WorldEventNew(world.eid + 1, e[1], e[2], e[3], world.elapsed_loops, FALSE))
          /\ world' = [world EXCEPT !.eid = world.eid + 1]
    /\ UNCHANGED <<pc, idx, retained, now, log>>

(* A setup whose event is continuous whatever the timer's repeat flag *)
GameAddTimerAlwaysContinues(universe) ==
    /\ pc = "setup"
    /\ Len(events) <= MaxEvents
    /\ \E tm \in universe :
          LET key == world.uuid + 1
              w1 == AddRawTimer([world EXCEPT !.uuid = key],
                                WorldTimerNew(key, tm[1], tm[2], now))
          IN  /\ events' = Append(events,
                     WorldEventNew(w1.eid + 1, Trigger("TimerElapsed", key), TRUE, tm[3],
                                   w1.elapsed_loops, FALSE))
              /\ world' = [w1 EXCEPT !.eid = w1.eid + 1]
    /\ UNCHANGED <<pc, idx, retained, now, log>>

(* Game::add_timer(Timer::new(duration, repeat), on_elapsed): the timer    *)
(* into the table, then its event straight into events                     *)
GameAddTimer(universe) ==
    /\ pc = "setup"
    /\ Len(events) <= MaxEvents
    /\ \E tm \in universe :
          LET key == world.uuid + 1
              w1 == AddRawTimer([world EXCEPT !.uuid = key],
                                WorldTimerNew(key, tm[1], tm[2], now))
          IN  /\ events' = Append(events,
                     WorldEventNew(w1.eid + 1, Trigger("TimerElapsed", key), tm[2], tm[3],
                                   w1.elapsed_loops, FALSE))
              /\ world' = [w1 EXCEPT !.eid = w1.eid + 1]
    /\ UNCHANGED <<pc, idx, retained, now, log>>

(* Game::add_event of one more event that waits for a timer already in    *)
(* the table (its key is what Game::add_raw_timer returned)                *)
GameAddWatcher ==
    /\ pc = "setup"
    /\ Len(events) <= MaxEvents
    /\ \E key \in DOMAIN world.timers, c \in BOOLEAN :
          /\ events' = Append(events,
                 WorldEventNew(world.eid + 1, Trigger("TimerElapsed", key), c, LeaveAlone,
                               world.elapsed_loops, FALSE))
          /\ world' = [world EXCEPT !.eid = world.eid + 1]
    /\ UNCHANGED <<pc, idx, retained, now, log>>

(* The caller starts Game::game_loop *)
StartLoop ==
    /\ pc = "setup"
    /\ pc' = "loop"
    /\ UNCHANGED <<events, idx, retained, world, now, log>>

(* game_loop: the while condition fails, the loop returns Ok *)
LoopExit ==
    /\ pc = "loop"
    /\ world.player.status # "Alive"
    /\ pc' = "done"
    /\ UNCHANGED <<events, idx, retained, world, now, log>>

(* A loop that does not test the player's status before a pass *)
BeginPassWhateverStatus ==
    /\ pc = "loop"
    /\ world.status = "Fluent"
    /\ world.elapsed_loops < world.tick_cap
    /\ pc' = "run"
    /\ idx' = 1
    /\ retained' = << >>
    /\ UNCHANGED <<events, world, now, log>>

(* game_loop, WorldStatus::Fluent: run_events starts its retain pass *)
BeginPass ==
    /\ pc = "loop"
    /\ world.player.status = "Alive"
    /\ world.status = "Fluent"
    /\ world.elapsed_loops < world.tick_cap
    /\ pc' = "run"
    /\ idx' = 1
    /\ retained' = << >>
    /\ UNCHANGED <<events, world, now, log>>

(* A Solid arm that runs the dispatch pass as the Fluent arm does *)
PauseScreenRunsEvents ==
    /\ pc = "loop"
    /\ world.player.status = "Alive"
    /\ world.status = "Solid"
    /\ world.elapsed_loops < world.tick_cap
    /\ pc' = "run"
    /\ idx' = 1
    /\ retained' = << >>
    /\ UNCHANGED <<events, world, now, log>>

(* game_loop, WorldStatus::Solid: only the pause screen is drawn *)
PauseScreen ==
    /\ pc = "loop"
    /\ world.player.status = "Alive"
    /\ world.status = "Solid"
    /\ world.elapsed_loops < world.tick_cap
    /\ pc' = "tail"
    /\ UNCHANGED <<events, idx, retained, world, now, log>>

(* A retain closure that keeps every event: one-shot events would fire     *)
(* again                                                                   *)
RetainAlways(ev, triggered) == TRUE

(* A retain closure that returns the flag whatever the trigger said: a     *)
(* one-shot event whose trigger was false would be dropped                 *)
RetainFlagOnly(ev, triggered) == ev.is_continues

(* The closure of Vec::retain: whether the visited event is kept *)
Retain(ev, triggered) == IF triggered THEN ev.is_continues ELSE TRUE

(* What the history keeps of one trigger evaluation *)
LogEntry(ev, w, t, triggered) ==
    [ tick |-> w.elapsed_loops, ev |-> ev, fired |-> triggered,
      timer |-> IF ev.trigger.kind = "TimerElapsed"
                THEN TimerElapsed(w, ev.trigger.arg, t).ret ELSE "NA" ]

(* A pass that visits the events last to first *)
RunEventReversed ==
    /\ pc = "run"
    /\ idx <= Len(events)
    /\ LET ev == events[Len(events) + 1 - idx]
           chk == IsTriggered(ev.trigger, world, now)
       IN  \E inp \in (IF chk.ret THEN Inputs(ev.handler, chk.world) ELSE {NoInput}) :
              LET w2 == IF chk.ret THEN Handle(ev.handler, chk.world, now, inp)
                        ELSE chk.world
              IN  /\ world' = w2
                  /\ retained' = IF Retain(ev, chk.ret) THEN Append(retained, ev)
                                 ELSE retained
                  /\ pc' = IF w2.panicked THEN "panic" ELSE "run"
                  /\ log' = Append(log, LogEntry(ev, world, now, chk.ret))
    /\ idx' = idx + 1
    /\ UNCHANGED <<events, now>>

(* A pass that, having dropped an event, steps over the one behind it *)
RunEventSkipping ==
    /\ pc = "run"
    /\ idx <= Len(events)
    /\ LET ev == events[idx]
           chk == IsTriggered(ev.trigger, world, now)
       IN  \E inp \in (IF chk.ret THEN Inputs(ev.handler, chk.world) ELSE {NoInput}) :
              LET w2 == IF chk.ret THEN Handle(ev.handler, chk.world, now, inp)
                        ELSE chk.world
              IN  /\ world' = w2
                  /\ retained' = IF Retain(ev, chk.ret) THEN Append(retained, ev)
                                 ELSE retained
                  /\ pc' = IF w2.panicked THEN "panic" ELSE "run"
                  /\ log' = Append(log, LogEntry(ev, world, now, chk.ret))
                  /\ idx' = IF Retain(ev, chk.ret) THEN idx + 1 ELSE idx + 2
    /\ UNCHANGED <<events, now>>

(* run_events: retain visits events[idx]: the trigger is evaluated, the    *)
(* handler runs if it is true, and the event is kept or dropped            *)
RunEvent ==
    /\ pc = "run"
    /\ idx <= Len(events)
    /\ LET ev == events[idx]
           chk == IsTriggered(ev.trigger, world, now)
       IN  \E inp \in (IF chk.ret THEN Inputs(ev.handler, chk.world) ELSE {NoInput}) :
              LET w2 == IF chk.ret THEN Handle(ev.handler, chk.world, now, inp)
                        ELSE chk.world
              IN  /\ world' = w2
                  /\ retained' = IF Retain(ev, chk.ret) THEN Append(retained, ev)
                                 ELSE retained
                  /\ pc' = IF w2.panicked THEN "panic" ELSE "run"
                  /\ log' = Append(log, LogEntry(ev, world, now, chk.ret))
    /\ idx' = idx + 1
    /\ UNCHANGED <<events, now>>

(* A pass that takes the events registered meanwhile into the list it is   *)
(* still walking                                                           *)
EndPassAppending ==
    /\ pc = "run"
    /\ idx > Len(events)
    /\ IF world.new_events # << >>
       THEN /\ events' = events \o world.new_events
            /\ world' = [world EXCEPT !.new_events = << >>]
            /\ pc' = "run"
            /\ UNCHANGED <<idx, retained, now, log>>
       ELSE /\ events' = retained
            /\ pc' = "drain"
            /\ UNCHANGED <<idx, retained, world, now, log>>

(* run_events returns: events holds what retain kept *)
EndPass ==
    /\ pc = "run"
    /\ idx > Len(events)
    /\ events' = retained
    /\ pc' = "drain"
    /\ UNCHANGED <<idx, retained, world, now, log>>

(* A drain that copies new_events into events and leaves the queue as it  *)
(* was                                                                     *)
DrainLeavesQueue ==
    /\ pc = "drain"
    /\ events' = events \o world.new_events
    /\ pc' = "tail"
    /\ UNCHANGED <<idx, retained, world, now, log>>

(* game_loop: new_events is drained into events (Game::add_event each) *)
Drain ==
    /\ pc = "drain"
    /\ events' = events \o world.new_events
    /\ world' = [world EXCEPT !.new_events = << >>]
    /\ pc' = "tail"
    /\ UNCHANGED <<idx, retained, now, log>>

(* game_loop: the canvas is drawn, the thread sleeps, the tick is counted *)
EndTick ==
    /\ pc = "tail"
    /\ world' = [world EXCEPT !.elapsed_loops = world.elapsed_loops + 1]
    /\ pc' = "loop"
    /\ UNCHANGED <<events, idx, retained, now, log>>

(* game_loop: draw_map fails and the error is returned with `?` *)
DrawMapFails ==
    /\ pc = "tail"
    /\ pc' = "err"
    /\ UNCHANGED <<events, idx, retained, world, now, log>>

(* The clock advances while the thread sleeps (thread::sleep); a dispatch  *)
(* pass takes no time on the scale of the timers' durations.               *)
TimePasses ==
    /\ pc = "tail"
    /\ now < MaxTime
    /\ now' = now + 1
    /\ UNCHANGED <<pc, events, idx, retained, world, log>>

(* Game::game_loop *)
GameLoop ==
    \/ LoopExit
    \/ BeginPass
    \/ PauseScreen
    \/ RunEvent
    \/ EndPass
    \/ Drain
    \/ EndTick
    \/ DrawMapFails

(* The engine under a client whose handlers register events, timers and    *)
(* popups while the loop runs                                              *)
Next ==
    \/ GameAddEvent(DispatchEvents, MaxEvents)
    \/ StartLoop
    \/ GameLoop
    \/ TimePasses

Spec == Init /\ [][Next]_vars

(* The engine under a client that sends and waits for one signal; it       *)
(* registers one event more than the others (two senders and a listener)   *)
NextSignals ==
    \/ GameAddEvent(SignalEvents, MaxEvents + 1)
    \/ StartLoop
    \/ GameLoop
    \/ TimePasses

SpecSignals == Init /\ [][NextSignals]_vars

(* The engine under a client that sets up timers *)
NextTimers ==
    \/ GameAddEvent(TimerEvents, MaxEvents)
    \/ GameAddTimer(Timers)
    \/ GameAddWatcher
    \/ StartLoop
    \/ GameLoop
    \/ TimePasses

SpecTimers == Init /\ [][NextTimers]_vars

(* The map on its own, under a caller of its public functions: Map::new    *)
(* with the widths of World::new or with a river wider than the terminal,  *)
(* on a terminal of one line or more, then Map::update, change_river_mode  *)
(* with the modes of setup_event_handlers or a ConstWidth mode, and        *)
(* restore_river_mode.  The history keeps the mode changes.                *)
MaxMapL == 3

MapUpdates == MaxTicks

ModeChanges == MaxEvents + 1

MapWidths == { <<5, MaxC \div 3>>, <<5, MaxC + 2>> }

RiverModes ==
    { [kind |-> "ConstWidthAndCenter", width |-> MaxC \div 2, center_c |-> MaxC \div 2],
      [kind |-> "ConstWidth", width |-> MaxC \div 3, max_center_diff |-> 2 * 5 + 2] }

(* The draws of the random generator followed here: the ends of the range  *)
(* of widths; for the center the two ends of the range and the front       *)
(* line's own center                                                       *)
MapDraws(map) ==
    IF Retarget(map) /\ ~FromMapPanics(map)
    THEN LET ws == RngWidths(map)
             cs == RngCenters(map)
         IN  {[NoInput EXCEPT !.rw = rw, !.rc = rc] :
                 rw \in {w \in ws : (w - 1) \notin ws \/ (w + 1) \notin ws},
                 rc \in {c \in cs : c = 0 \/ c = map.max_c - 1 \/ c = Front(map).center_c}}
    ELSE {NoInput}

InitMap ==
    /\ pc = "map"
    /\ events = << >>
    /\ idx = 0
    /\ retained = << >>
    /\ \E l \in 1..MaxMapL, ws \in MapWidths :
          world = [WorldNew(MaxC, MaxL) EXCEPT !.map = MapNew(MaxC, l, ws[1], ws[2], 2, 5)]
    /\ now = 0
    /\ log = << >>

(* Map::update, as MapUpdater calls it *)
MapStep ==
    /\ pc = "map"
    /\ idx < MapUpdates
    /\ \E inp \in MapDraws(world.map) :
          /\ world' = Handle([kind |-> "MapUpdater"], world, now, inp)
          /\ pc' = IF world'.panicked THEN "panic" ELSE "map"
    /\ idx' = idx + 1
    /\ UNCHANGED <<events, retained, now, log>>

(* Map::change_river_mode *)
ModeChange ==
    /\ pc = "map"
    /\ Len(log) < ModeChanges
    /\ \E m \in RiverModes :
          /\ world' = [world EXCEPT !.map = ChangeRiverMode(world.map, m)]
          /\ log' = Append(log, [op |-> "change", before |-> world.map.river_mode,
                                 after |-> world'.map.river_mode])
    /\ UNCHANGED <<pc, events, idx, retained, now>>

(* Map::restore_river_mode *)
ModeRestore ==
    /\ pc = "map"
    /\ Len(log) < ModeChanges
    /\ world' = [world EXCEPT !.map = RestoreRiverMode(world.map)]
    /\ log' = Append(log, [op |-> "restore", before |-> world.map.river_mode,
                           after |-> world'.map.river_mode])
    /\ UNCHANGED <<pc, events, idx, retained, now>>

NextMap == MapStep \/ ModeChange \/ ModeRestore

SpecMap == InitMap /\ [][NextMap]_vars

(* The game of setup_event_handlers, taken up in the tick in which the     *)
(* initial fuel has run out: the events it registered that are still in    *)
(* the list and whose trigger is Always, in their order.                   *)
PlayStart == InitialFuel

PlayTicks == MaxTicks \div 2

PlayHandlers ==
    << [kind |-> "MapUpdater"],
       [kind |-> "Keyboard", keys |-> AllKeys],
       [kind |-> "PlayerStatusUpdater"],
       [kind |-> "UpdateEntitiesStatus"],
       [kind |-> "CreateRandomEntities"],
       [kind |-> "MoveEntities"],
       [kind |-> "MoveBullets"],
       [kind |-> "FuelDrain"],
       [kind |-> "TraveledInc"] >>

PlayEvents ==
    [i \in 1..Len(PlayHandlers) |->
        WorldEventNew(i, Trigger("Always", 0), TRUE, PlayHandlers[i], 0, FALSE)]

(* The entities a game in progress holds: an enemy as Enemy::new made it   *)
(* or with more armor, an enemy shot down, a fuel depot, in any status     *)
EntityKinds ==
    {[status |-> "Alive", entity_type |-> EnemyNew(1)],
     [status |-> "Alive", entity_type |-> EnemyNew(2)],
     [status |-> "DeadBody", entity_type |-> EnemyNew(0)],
     [status |-> "Dead", entity_type |-> EnemyNew(0)],
     [status |-> "Alive", entity_type |-> Fuel],
     [status |-> "DeadBody", entity_type |-> Fuel],
     [status |-> "Dead", entity_type |-> Fuel]}

(* The fuel left at PlayStart: none, or one depot picked up on the way *)
PlayFuels == {0, 200}

(* The player flies on one of the two edge columns of the river, an entity *)
(* is on the player's line or on the line above, in the player's column    *)
PlayWorlds ==
    LET w0 == WorldNew(MaxC, MaxL)
        b == RiverBordersAt(w0.map, MaxL - 1)
    IN  { [w0 EXCEPT !.elapsed_loops = PlayStart,
                     !.tick_cap = PlayStart + PlayTicks,
                     !.eid = Len(PlayHandlers),
                     !.nid = Len(es),
                     !.player.location.column = c,
                     !.player.fuel = f,
                     !.player.traveled = PlayStart,
                     !.entities =
                        [i \in 1..Len(es) |->
                            [EntityNew(i, LocationNew(c, es[i][2]), es[i][1].entity_type)
                                EXCEPT !.status = es[i][1].status]]] :
          c \in {b.start, b.end - 1},
          f \in PlayFuels,
          es \in UNION {[1..n -> EntityKinds \X {MaxL - 2, MaxL - 1}] : n \in 0..MaxEntities} }

InitPlay ==
    /\ pc = "loop"
    /\ events = PlayEvents
    /\ idx = 0
    /\ retained = << >>
    /\ world \in PlayWorlds
    /\ now = 0
    /\ log = << >>

NextPlay == GameLoop

SpecPlay == InitPlay /\ [][NextPlay]_vars

(* The same game with an event that waits for a distance travelled, taken  *)
(* up at PlayStart and in the tick in which the u16 counter of the lines   *)
(* travelled is at its last value, with the player on the starting line or *)
(* one line up; by then the player has picked up 320 depots and the score, *)
(* a multiple of 10, is at its last multiple of 10.                        *)
EdgeHandlers ==
    SubSeq(PlayHandlers, 1, 2) \o << LeaveAlone >> \o SubSeq(PlayHandlers, 3, Len(PlayHandlers))

EdgeEvents ==
    [i \in 1..Len(EdgeHandlers) |->
        WorldEventNew(i, IF EdgeHandlers[i] = LeaveAlone
                         THEN Trigger("Traveled", PlayStart + 1)
                         ELSE Trigger("Always", 0),
                      TRUE, EdgeHandlers[i], 0, FALSE)]

EdgeStarts ==
    { [tick |-> PlayStart, up |-> 0, fuel |-> 200, score |-> 0],
      [tick |-> U16 - 1, up |-> 0, fuel |-> InitialFuel + 320 * 200 - (U16 - 1),
       score |-> U16 - 6],
      [tick |-> U16 - 2, up |-> 1, fuel |-> InitialFuel + 320 * 200 - (U16 - 2),
       score |-> U16 - 6] }

EdgeWorlds ==
    LET w0 == WorldNew(MaxC, MaxL) IN
    { [w0 EXCEPT !.elapsed_loops = st.tick,
                 !.tick_cap = st.tick + PlayTicks,
                 !.eid = Len(EdgeHandlers),
                 !.nid = 1,
                 !.player.fuel = st.fuel,
                 !.player.score = st.score,
                 !.player.traveled = st.tick + st.up,
                 !.player.location.line = MaxL - 1 - st.up,
                 !.entities = << EntityNew(1, LocationNew(MaxC \div 2, MaxL - 2), ty) >>] :
      st \in EdgeStarts, ty \in {EnemyNew(1), Fuel} }

InitEdge ==
    /\ pc = "loop"
    /\ events = EdgeEvents
    /\ idx = 0
    /\ retained = << >>
    /\ world \in EdgeWorlds
    /\ now = 0
    /\ log = << >>

NextEdge == GameLoop

SpecEdge == InitEdge /\ [][NextEdge]_vars

(* The bullets on their own: the player, on any line the keyboard guards   *)
(* allow and on a column at an edge of the river or just outside it,       *)
(* presses space; then the move passes follow, counted since the last      *)
(* shot.                                                                   *)
BulletPasses == MaxL \div 4 + 2

ShooterWorlds ==
    LET w0 == WorldNew(MaxC, MaxL)
        b == RiverBordersAt(w0.map, MaxL - 1)
    IN  { [w0 EXCEPT !.player.location = LocationNew(c, l)] :
            c \in {b.start - 1, b.start, b.end - 1, b.end}, l \in 1..(MaxL - 1) }

InitBullets ==
    /\ pc = "bullets"
    /\ events = << >>
    /\ idx = 0
    /\ retained = << >>
    /\ world \in ShooterWorlds
    /\ now = 0
    /\ log = << >>

(* keyboard_events on the space key *)
FireStep ==
    /\ pc = "bullets"
    /\ \E inp \in {[NoInput EXCEPT !.key = "space"]} :
          world' = Handle([kind |-> "Keyboard", keys |-> {"space"}], world, now, inp)
    /\ idx' = IF world.player.bullets = << >> THEN 0 ELSE idx
    /\ UNCHANGED <<pc, events, retained, now, log>>

(* move_bullets, after a shot *)
BulletsStep ==
    /\ pc = "bullets"
    /\ idx < BulletPasses
    /\ world' = Handle([kind |-> "MoveBullets"], world, now, NoInput)
    /\ idx' = idx + 1
    /\ UNCHANGED <<pc, events, retained, now, log>>

NextBullets == FireStep \/ BulletsStep

SpecBullets == InitBullets /\ [][NextBullets]_vars

(* The entities on their own: create_random_entities and move_entities,   *)
(* in any order; idx counts the move passes, and the history keeps, for    *)
(* each entity by id, the number of passes made before it was spawned.     *)
EntityPasses == MaxL + MaxTicks

Spawns == MaxEvents

InitEntities ==
    /\ pc = "entities"
    /\ events = << >>
    /\ idx = 0
    /\ retained = << >>
    /\ world = WorldNew(MaxC, MaxL)
    /\ now = 0
    /\ log = << >>

(* create_random_entities *)
SpawnStep ==
    /\ pc = "entities"
    /\ world.nid < Spawns
    /\ \E inp \in SpawnDraws(world) :
          world' = Handle([kind |-> "CreateRandomEntities"], world, now, inp)
    /\ log' = log \o [i \in 1..(world'.nid - world.nid) |-> idx]
    /\ UNCHANGED <<pc, events, idx, retained, now>>

(* move_entities *)
EntitiesStep ==
    /\ pc = "entities"
    /\ idx < EntityPasses
    /\ world' = Handle([kind |-> "MoveEntities"], world, now, NoInput)
    /\ idx' = idx + 1
    /\ UNCHANGED <<pc, events, retained, now, log>>

NextEntities == SpawnStep \/ EntitiesStep

SpecEntities == InitEntities /\ [][NextEntities]_vars

(* The game of setup_event_handlers from its first tick: the Always events *)
(* in their order, then the one-shot GameStarted event with the opening.   *)
(* The player presses nothing, 'q' or 'p'; the opening's popups are those  *)
(* of Popups; the 60-second and 1-second timers, which elapse after the    *)
(* opening and touch neither list nor probabilities before, are left out.  *)
IntroHandlers ==
    [i \in 1..Len(PlayHandlers) |->
        IF PlayHandlers[i].kind = "Keyboard" THEN [kind |-> "Keyboard", keys |-> Keys]
        ELSE PlayHandlers[i]]
    \o << [kind |-> "Opening", popups |-> Popups, every |-> MaxTime] >>

IntroEvents ==
    [i \in 1..Len(IntroHandlers) |->
        IF IntroHandlers[i].kind = "Opening"
        THEN WorldEventNew(i, Trigger("GameStarted", 0), FALSE, IntroHandlers[i], 0, FALSE)
        ELSE WorldEventNew(i, Trigger("Always", 0), TRUE, IntroHandlers[i], 0, FALSE)]

InitIntro ==
    /\ pc = "loop"
    /\ events = IntroEvents
    /\ idx = 0
    /\ retained = << >>
    /\ world = [WorldNew(MaxC, MaxL) EXCEPT !.eid = Len(IntroEvents)]
    /\ now = 0
    /\ log = << >>

NextIntro == GameLoop \/ TimePasses

SpecIntro == InitIntro /\ [][NextIntro]_vars

(* The engine under a client that shows popups *)
NextPopups ==
    \/ GameAddEvent(PopupEvents, MaxEvents)
    \/ StartLoop
    \/ GameLoop
    \/ TimePasses

SpecPopups == Init /\ [][NextPopups]_vars

(* The engine under a client that calls popup_series with no popup *)
NextEmptySeries ==
    \/ GameAddEvent(EmptySeriesEvents, MaxEvents)
    \/ StartLoop
    \/ GameLoop
    \/ TimePasses

SpecEmptySeries == Init /\ [][NextEmptySeries]_vars

(* The engine under a client whose events wait for the start of the game,  *)
(* registered before the loop or by a handler                              *)
NextStart ==
    \/ GameAddEvent(StartEvents, MaxEvents)
    \/ StartLoop
    \/ GameLoop
    \/ TimePasses

SpecStart == Init /\ [][NextStart]_vars

----------------------------------------------------------------------------
(* Reading the history of trigger evaluations *)

(* The ticks in which a dispatch pass ran (MapUpdater is in every pass) *)
PassTicks == {log[i].tick : i \in DOMAIN log}

(* The dispatch pass of tick T has run to its end *)
CompletedPass(T) ==
    /\ T \in PassTicks
    /\ (T < world.elapsed_loops \/ pc \in {"drain", "tail", "err"})

(* The trigger of event id was evaluated in tick T *)
Evaluated(id, T) == \E i \in DOMAIN log : log[i].ev.id = id /\ log[i].tick = T

(* The active list as the running retain pass has left it so far *)
ActiveList ==
    IF pc \in {"run", "panic"}
    THEN retained \o SubSeq(events, idx, Len(events))
    ELSE events

(* The evaluations of the current tick, in the order they happened *)
ThisTick == SelectSeq(log, LAMBDA e : e.tick = world.elapsed_loops)

(* The events the retention rule keeps of the current tick's evaluations *)
KeptByRule ==
    LET s == SelectSeq(ThisTick, LAMBDA e : ~e.fired \/ e.ev.is_continues)
    IN  [i \in 1..Len(s) |-> s[i].ev]

(* The step is run_events visiting an event that waits for timer k *)
TimerCheck(k) ==
    /\ pc = "run"
    /\ idx <= Len(events)
    /\ idx' = idx + 1
    /\ events[idx].trigger = Trigger("TimerElapsed", k)

IsSend(e, k) == e.fired /\ e.ev.handler.kind = "SendSignal" /\ e.ev.handler.key = k

IsListen(e, k) == e.ev.trigger = Trigger("Signal", k)

(* Signal k is pending just before evaluation j: it was sent and no        *)
(* Signal(k) trigger was true since                                        *)
Pending(j, k) ==
    \E i \in 1..(j - 1) :
       /\ IsSend(log[i], k)
       /\ \A m \in (i + 1)..(j - 1) : ~(IsListen(log[m], k) /\ log[m].fired)

----------------------------------------------------------------------------
(* Properties of the dispatch pass *)

(* C1: an event registered through World::add_event in tick N sits in      *)
(* new_events for the rest of that tick, its trigger is not evaluated in   *)
(* tick N, and it is evaluated in every dispatch pass after tick N from    *)
(* the first one on (the pass of the next Fluent tick).                    *)
DeferredAddLaw ==
    /\ \A i \in DOMAIN log :
          log[i].ev.deferred =>
             /\ log[i].tick > log[i].ev.born
             /\ \A T \in PassTicks :
                   (log[i].ev.born < T /\ T < log[i].tick) => Evaluated(log[i].ev.id, T)
    /\ \A k \in DOMAIN world.new_events :
          /\ world.new_events[k].deferred
          /\ world.new_events[k].born = world.elapsed_loops
          /\ \A i \in DOMAIN log : log[i].ev.id # world.new_events[k].id
    /\ world.new_events # << >> => pc \in {"run", "drain", "panic"}
    /\ \A k \in DOMAIN events :
          events[k].deferred =>
             \A T \in PassTicks :
                (events[k].born < T /\ CompletedPass(T)) => Evaluated(events[k].id, T)

(* An event a handler registered has fired in the tick after *)
DeferredAddSeen ==
    \E i \in DOMAIN log :
       /\ log[i].ev.deferred
       /\ log[i].fired
       /\ log[i].tick = log[i].ev.born + 1
       /\ log[i].ev.handler.kind = "PopupElapsed"

(* C2: once the trigger of a continues=false event has evaluated true, the *)
(* event is out of the active list, and that evaluation is the only true   *)
(* one and the last one of the event.                                      *)
OneShotAtMostOnce ==
    \A i \in DOMAIN log :
       (log[i].fired /\ ~log[i].ev.is_continues) =>
          /\ \A j \in DOMAIN log :
                (j # i /\ log[j].ev.id = log[i].ev.id) => (j < i /\ ~log[j].fired)
          /\ \A k \in DOMAIN ActiveList : ActiveList[k].id # log[i].ev.id
          /\ \A k \in DOMAIN world.new_events : world.new_events[k].id # log[i].ev.id

(* A one-shot event waited, fired, and a later pass ran without it *)
OneShotFiredEarlier ==
    \E i, j \in DOMAIN log :
       /\ j < i
       /\ log[j].ev.id = log[i].ev.id
       /\ log[i].fired /\ ~log[i].ev.is_continues
       /\ \E T \in PassTicks : T > log[i].tick /\ CompletedPass(T)

(* C3: what a pass keeps is exactly the events it visited whose trigger    *)
(* was false or whose continues flag is true, in the order visited.        *)
RetentionRule ==
    /\ pc = "run" => retained = KeptByRule
    /\ pc = "drain" => events = KeptByRule

(* A pass dropped an event, kept a one-shot whose trigger was false, and   *)
(* kept a continuing event that fired                                      *)
RetentionSeen ==
    /\ pc = "drain"
    /\ \E a, b, c \in DOMAIN ThisTick :
          /\ ThisTick[a].fired /\ ~ThisTick[a].ev.is_continues
          /\ ~ThisTick[b].fired /\ ~ThisTick[b].ev.is_continues
          /\ ThisTick[c].fired /\ ThisTick[c].ev.is_continues

(* C4: within a pass the events are visited in registration order, and a   *)
(* trigger sees what the handlers of the events before it did in the same  *)
(* pass: a Signal trigger behind a handler that sent the signal is true in *)
(* that pass, and no Signal trigger is true before the signal was sent.    *)
RegistrationOrder ==
    /\ \A i, j \in DOMAIN log :
          (i < j /\ log[i].tick = log[j].tick) => log[i].ev.id < log[j].ev.id
    /\ \A i, j \in DOMAIN events : i < j => events[i].id < events[j].id
    /\ \A i, j \in DOMAIN log :
          ( /\ i < j
            /\ log[i].tick = log[j].tick
            /\ IsSend(log[i], SigA)
            /\ IsListen(log[j], SigA)
            /\ \A m \in (i + 1)..(j - 1) : ~IsListen(log[m], SigA) )
          => log[j].fired
    /\ \A j \in DOMAIN log :
          (IsListen(log[j], SigA) /\ log[j].fired)
          => \E i \in 1..(j - 1) : IsSend(log[i], SigA)

(* A handler sent the signal and an event behind it fired on it in the     *)
(* same pass                                                               *)
SamePassVisible ==
    \E i, j \in DOMAIN log :
       /\ i < j
       /\ log[i].tick = log[j].tick
       /\ IsSend(log[i], SigA)
       /\ IsListen(log[j], SigA)
       /\ log[j].fired

(* C5: while a pass runs, the evaluations of the tick are exactly those of *)
(* the events visited so far, one each; at the end of the pass every event *)
(* that was in the list at its start has been evaluated once, and no tick  *)
(* evaluates one event twice.                                              *)
EvaluatedExactlyOnce ==
    /\ pc = "run" =>
          /\ idx <= Len(events) + 1
          /\ Len(ThisTick) = idx - 1
          /\ \A k \in 1..(idx - 1) : ThisTick[k].ev = events[k]
    /\ pc \in {"setup", "loop"} => ThisTick = << >>
    /\ \A i, j \in DOMAIN log :
          (i # j /\ log[i].tick = log[j].tick) => log[i].ev.id # log[j].ev.id

(* A pass over four events, a timer check among them, is at its end *)
WholePassSeen ==
    /\ pc = "run"
    /\ idx = Len(events) + 1
    /\ Len(events) >= 4
    /\ world.elapsed_loops >= 1
    /\ \E k \in DOMAIN ThisTick : ThisTick[k].timer = "SomeTrue"

----------------------------------------------------------------------------
(* Properties of timers *)

(* C6: a check of a non-repeating timer made while no more than its        *)
(* duration has passed returns Some(false) and leaves the table alone; a   *)
(* check made after that returns Some(true) and removes the key; a removed *)
(* key stays out of the table and a check of it returns None.              *)
NonRepeatingTimer ==
    [][ /\ \A k \in DOMAIN world.timers :
              (TimerCheck(k) /\ ~world.timers[k].repeat) =>
                 IF now - world.timers[k].instant <= world.timers[k].duration
                 THEN /\ log'[Len(log')].timer = "SomeFalse"
                      /\ ~log'[Len(log')].fired
                      /\ world'.timers = world.timers
                 ELSE /\ log'[Len(log')].timer = "SomeTrue"
                      /\ log'[Len(log')].fired
                      /\ world'.timers = MapRemove(world.timers, k)
        /\ \A k \in 1..world.uuid :
              k \notin DOMAIN world.timers =>
                 /\ k \notin DOMAIN world'.timers
                 /\ TimerCheck(k) => log'[Len(log')].timer = "None"
      ]_vars

(* One non-repeating timer answered Some(false), then Some(true), then     *)
(* None                                                                    *)
NonRepeatingSeen ==
    \E i, j, k \in DOMAIN log :
       /\ i < j /\ j < k
       /\ log[i].ev.trigger = log[j].ev.trigger
       /\ log[j].ev.trigger = log[k].ev.trigger
       /\ log[i].timer = "SomeFalse"
       /\ log[j].timer = "SomeTrue"
       /\ log[k].timer = "None"

(* C7: a check of a repeating timer made after its duration has passed     *)
(* returns Some(true) and sets its start to the time of the check; a check *)
(* made while no more than the duration has passed since the start returns *)
(* Some(false) and changes nothing; no step takes the timer off the table. *)
RepeatingTimer ==
    [][ \A k \in DOMAIN world.timers :
           world.timers[k].repeat =>
              /\ k \in DOMAIN world'.timers
              /\ TimerCheck(k) =>
                    IF now - world.timers[k].instant > world.timers[k].duration
                    THEN /\ log'[Len(log')].timer = "SomeTrue"
                         /\ log'[Len(log')].fired
                         /\ world'.timers = [world.timers EXCEPT ![k].instant = now]
                    ELSE /\ log'[Len(log')].timer = "SomeFalse"
                         /\ ~log'[Len(log')].fired
                         /\ world'.timers = world.timers
      ]_vars

(* One repeating timer answered Some(true), then Some(false), then         *)
(* Some(true) again                                                        *)
RepeatingSeen ==
    \E i, j, k \in DOMAIN log :
       /\ i < j /\ j < k
       /\ log[i].ev.id = log[j].ev.id
       /\ log[j].ev.id = log[k].ev.id
       /\ log[i].timer = "SomeTrue"
       /\ log[j].timer = "SomeFalse"
       /\ log[k].timer = "SomeTrue"
       /\ log[k].ev.trigger.arg \in DOMAIN world.timers

(* C8: the visit of an event that waits for a timer key the table does not *)
(* hold reads None, the trigger is false, the World (the timer table       *)
(* included) is as before, the event is kept, and the pass goes on.        *)
MissingTimerKey ==
    [][ \A k \in {NoTimer} \cup (1..world.uuid) :
           (TimerCheck(k) /\ k \notin DOMAIN world.timers) =>
              /\ log' = Append(log, [tick |-> world.elapsed_loops, ev |-> events[idx],
                                     fired |-> FALSE, timer |-> "None"])
              /\ world' = world
              /\ retained' = Append(retained, events[idx])
              /\ pc' = "run"
      ]_vars

(* The event that waits for a key never in the table was evaluated in two  *)
(* ticks, and the pass of the first went on behind it                      *)
MissingKeySeen ==
    \E i, j, k \in DOMAIN log :
       /\ i < j /\ j < k
       /\ log[i].ev.trigger.kind = "TimerElapsed"
       /\ log[i].ev.trigger.arg = NoTimer
       /\ log[i].timer = "None"
       /\ log[j].tick = log[i].tick
       /\ log[k].ev.id = log[i].ev.id
       /\ log[k].tick > log[i].tick

----------------------------------------------------------------------------
(* Properties of signals *)

(* C9: a Signal(k) trigger is true exactly when k was sent and no          *)
(* Signal(k) trigger was true since; the set holds k exactly then.  So one *)
(* send makes one trigger true, the first evaluated, and a send while k is *)
(* pending adds nothing.                                                   *)
SignalConsumption ==
    /\ \A j \in DOMAIN log :
          IsListen(log[j], SigA) => (log[j].fired <=> Pending(j, SigA))
    /\ (SigA \in world.signals) <=> Pending(Len(log) + 1, SigA)
    /\ world.signals \subseteq {SigA}

(* The signal was sent twice in a row, the next Signal trigger was true    *)
(* and the one after it, with no send between, was false                   *)
SentTwiceFiredOnce ==
    \E i, j, k, l \in DOMAIN log :
       /\ i < j /\ j < k /\ k < l
       /\ IsSend(log[i], SigA)
       /\ IsSend(log[j], SigA)
       /\ \A m \in (i + 1)..(j - 1) : ~IsListen(log[m], SigA)
       /\ IsListen(log[k], SigA) /\ log[k].fired
       /\ IsListen(log[l], SigA) /\ ~log[l].fired
       /\ \A m \in (j + 1)..(l - 1) : ~IsSend(log[m], SigA)

----------------------------------------------------------------------------
(* Properties of popups *)

SeriesMessages == {Popups[i].message : i \in DOMAIN Popups}

(* The handlers that called World::popup_series *)
SeriesStarts ==
    {i \in DOMAIN log : log[i].fired /\ log[i].ev.handler.kind = "PopupSeries"}

(* The drawings of the series, in the order they were added *)
SeriesDrawn == SelectSeq(world.drawn, LAMBDA d : d.message \in SeriesMessages)

(* The drawings of the series on the canvas *)
SeriesPresent ==
    {k \in DOMAIN world.custom_drawings : world.custom_drawings[k] \in SeriesMessages}

(* The runs of the trailing handler *)
TrailingRuns ==
    {i \in DOMAIN log : log[i].fired /\ log[i].ev.trigger.kind = "Signal"}

(* The evaluations that saw the timer of the last popup elapsed *)
LastElapses ==
    {i \in DOMAIN log : /\ log[i].fired
                        /\ log[i].ev.handler.kind = "PopupElapsed"
                        /\ log[i].ev.handler.after.kind = "SendSignal"}

(* C10: of one popup_series call with the popups of Popups, the drawings   *)
(* added are a prefix of the list in its order, at most one is on the      *)
(* canvas, the trailing handler has run at most once, and when it has run  *)
(* all the drawings were added and cleared and the last popup's timer was  *)
(* seen elapsed in an earlier tick; the first pass that runs after that    *)
(* tick runs the trailing handler.                                         *)
PopupSeriesLaw ==
    /\ Cardinality(SeriesStarts) = 0 => (SeriesDrawn = << >> /\ TrailingRuns = {})
    /\ Cardinality(SeriesStarts) = 1 =>
          /\ Len(SeriesDrawn) <= Len(Popups)
          /\ \A i \in DOMAIN SeriesDrawn : SeriesDrawn[i].message = Popups[i].message
          /\ Cardinality(SeriesPresent) <= 1
          /\ Cardinality(TrailingRuns) <= 1
          /\ \A r \in TrailingRuns :
                /\ Len(SeriesDrawn) = Len(Popups)
                /\ SeriesPresent = {}
                /\ \E e \in LastElapses : log[e].tick < log[r].tick
          /\ \A e \in LastElapses :
                \A T \in PassTicks :
                   (T > log[e].tick /\ CompletedPass(T)) =>
                      \E r \in TrailingRuns : log[r].tick = log[e].tick + 1

(* The trailing handler of the one series has run, next to a popup of its  *)
(* own                                                                     *)
SeriesCompleted ==
    /\ Cardinality(SeriesStarts) = 1
    /\ TrailingRuns # {}
    /\ Len(world.drawn) > Len(Popups)

----------------------------------------------------------------------------
(* The game of setup_event_handlers *)

(* The step about to be taken runs the handler of this kind *)
Runs(kind) ==
    pc = "run" /\ idx <= Len(events) /\ events[idx].handler.kind = kind

(* The handler of this kind is the last one that ran *)
JustRan(kind) ==
    pc \in {"run", "panic"} /\ idx > 1 /\ idx - 1 <= Len(events)
        /\ events[idx - 1].handler.kind = kind

(* The tick of the last trigger evaluation *)
LastTick == log[Len(log)].tick

(* C11: once the player's status is Dead(cause) or Quit, no step makes it  *)
(* Alive again (it may still change from one of these values to another).  *)
NeverAliveAgain ==
    [][world.player.status # "Alive" => world'.player.status # "Alive"]_vars

(* The player ran out of fuel inside the river and the status check said   *)
(* so; then the resolver found an enemy on the player and changed the      *)
(* cause of death.                                                         *)
DiedTwice ==
    /\ JustRan("UpdateEntitiesStatus")
    /\ world.player.status = "DeadEnemy"
    /\ world.player.fuel = 0
    /\ IsInRiver(world.map, world.player.location)

(* C12: once the player's status is not Alive, no dispatch pass is started, *)
(* the tick counter goes no further than one past the tick of the last     *)
(* pass, and when the loop condition is tested the loop returns Ok with    *)
(* the world as it is.                                                     *)
LoopStops ==
    [][world.player.status # "Alive" =>
          /\ pc' = "run" => pc = "run"
          /\ world'.elapsed_loops <= LastTick + 1
          /\ pc = "loop" => (pc' = "done" /\ world' = world /\ events' = events)]_vars

(* The loop returned Ok after the tick in which the player hit the ground  *)
ReturnedAfterDeath ==
    /\ pc = "done"
    /\ world.player.status = "DeadGround"
    /\ world.elapsed_loops = LastTick + 1

(* EntityStatus in the order of an entity's life *)
Rank(status) ==
    CASE status = "Alive" -> 0
      [] status = "DeadBody" -> 1
      [] status = "Dead" -> 2

(* C13: an entity's status only moves along Alive, DeadBody, Dead: no step *)
(* moves it backward, and a step (so a tick, whose only step that touches  *)
(* a status is the resolver's) moves it at most one place forward.         *)
StatusOneWay ==
    [][\A i \in DOMAIN world.entities, j \in DOMAIN world'.entities :
          world.entities[i].id = world'.entities[j].id =>
             Rank(world'.entities[j].status) - Rank(world.entities[i].status)
                \in {0, 1}]_vars

(* C14: the retain at the start of a resolver pass drops every entity      *)
(* whose status is Dead, enemy or fuel: none of them is in the list when   *)
(* the pass is over.                                                       *)
DeadPurged ==
    [][Runs("UpdateEntitiesStatus") =>
          \A i \in DOMAIN world.entities :
             world.entities[i].status = "Dead" =>
                \A j \in DOMAIN world'.entities :
                   world'.entities[j].id # world.entities[i].id]_vars

(* The bullets of w that qualify against entity e: in its column, at most *)
(* one line above or below it                                              *)
Qualifying(w, e) ==
    {j \in DOMAIN w.player.bullets :
        LET b == w.player.bullets[j].location
        IN  b.column = e.location.column /\ AbsDiff(b.line, e.location.line) <= 1}

(* The entity the resolver's retain keeps *)
Kept(e) == ~(e.entity_type.kind = "Enemy" /\ e.status = "Dead")

(* The entity of w with this id, when there is one *)
ById(w, id) ==
    LET js == {j \in DOMAIN w.entities : w.entities[j].id = id}
    IN  w.entities[CHOOSE j \in js : TRUE]

Present(w, id) == \E j \in DOMAIN w.entities : w.entities[j].id = id

(* C15: in a resolver pass that does not panic, an enemy with armor a >= 1 *)
(* against which n <= a bullets qualify ends with armor a - n; if that is  *)
(* above 0 an Alive enemy is still Alive, if it is 0 the enemy is DeadBody; *)
(* a fuel against which a bullet qualifies is DeadBody; the score rises by *)
(* 10 for every enemy whose armor reached 0 and by 20 for every bullet     *)
(* that qualifies against a fuel, and by nothing else.                     *)
BulletHitLaw ==
    [][(Runs("UpdateEntitiesStatus") /\ ~world'.panicked) =>
          LET es == {i \in DOMAIN world.entities : Kept(world.entities[i])}
              n(i) == Cardinality(Qualifying(world, world.entities[i]))
              a(i) == world.entities[i].entity_type.armor
              enemies == {i \in es : world.entities[i].entity_type.kind = "Enemy"}
              fuels == {i \in es : world.entities[i].entity_type.kind = "Fuel"}
              killed == {i \in enemies : a(i) >= 1 /\ n(i) >= a(i)}
              fuel_hits == {ij \in fuels \X DOMAIN world.player.bullets :
                              ij[2] \in Qualifying(world, world.entities[ij[1]])}
          IN  /\ \A i \in es : Present(world', world.entities[i].id)
              /\ \A i \in enemies :
                    (a(i) >= 1 /\ n(i) <= a(i)) =>
                       LET e == world.entities[i]
                           e2 == ById(world', e.id)
                       IN  /\ e2.entity_type.armor = a(i) - n(i)
                           /\ (a(i) - n(i) > 0 /\ e.status = "Alive") => e2.status = "Alive"
                           /\ (a(i) - n(i) = 0 /\ n(i) >= 1) => e2.status = "DeadBody"
              /\ \A i \in fuels :
                    n(i) >= 1 => ById(world', world.entities[i].id).status = "DeadBody"
              /\ world'.player.score =
                    WrapU16(world.player.score + 10 * Cardinality(killed)
                                + 20 * Cardinality(fuel_hits))]_vars

(* The resolver ran with a bullet within the margin of an enemy that had   *)
(* armor 2: the enemy is Alive with armor 1 and nothing was scored         *)
ArmorLeft ==
    /\ JustRan("UpdateEntitiesStatus")
    /\ world.player.score = 0
    /\ \E i \in DOMAIN world.entities :
          /\ world.entities[i].entity_type = EnemyNew(1)
          /\ world.entities[i].status = "Alive"
          /\ Qualifying(world, world.entities[i]) # {}

(* C16: in a resolver pass that does not panic, a contact is an Alive      *)
(* entity at exactly the player's location.  The player is Dead(Enemy)     *)
(* after the pass if an enemy was in contact and has the status it had     *)
(* otherwise; the fuel rises by exactly 200 for every fuel in contact and  *)
(* by nothing else; a fuel in contact is DeadBody; an Alive enemy against  *)
(* which no bullet qualifies is unchanged, in contact or not.              *)
ContactLaw ==
    [][(Runs("UpdateEntitiesStatus") /\ ~world'.panicked) =>
          LET es == {i \in DOMAIN world.entities : Kept(world.entities[i])}
              contact(kind) ==
                 {i \in es : /\ world.entities[i].status = "Alive"
                              /\ world.entities[i].location = world.player.location
                              /\ world.entities[i].entity_type.kind = kind}
          IN  /\ world'.player.status =
                    IF contact("Enemy") # {} THEN "DeadEnemy" ELSE world.player.status
              /\ world'.player.fuel =
                    WrapU16(world.player.fuel + 200 * Cardinality(contact("Fuel")))
              /\ \A i \in contact("Fuel") :
                    ById(world', world.entities[i].id).status = "DeadBody"
              /\ \A i \in es :
                    LET e == world.entities[i] IN
                    (/\ e.entity_type.kind = "Enemy"
                     /\ e.status = "Alive"
                     /\ Qualifying(world, e) = {}) => ById(world', e.id) = e]_vars

(* The resolver ran with a fuel depot under the player: the depot is       *)
(* DeadBody and the player's 200 units of fuel are 400                     *)
FuelPickedUp ==
    /\ JustRan("UpdateEntitiesStatus")
    /\ world.player.fuel = 400
    /\ \E i \in DOMAIN world.entities :
          /\ world.entities[i].entity_type = Fuel
          /\ world.entities[i].status = "DeadBody"
          /\ world.entities[i].location = world.player.location

(* The borders of the river on the player's line *)
PlayerBorders == RiverBordersAt(world.map, world.player.location.line)

(* C17 as stated: whenever the status check runs with no fuel left, the    *)
(* player is Dead(Fuel) after it, wherever the player is.                  *)
NoFuelDiesOfFuel ==
    [][(Runs("PlayerStatusUpdater") /\ world.player.fuel = 0) =>
          world'.player.status = "DeadFuel"]_vars

(* C17: whenever the status check runs with no fuel left, the player is    *)
(* Dead(Fuel) after it if the player's column is inside the borders of the *)
(* river, and Dead(Ground) if it is outside.                               *)
NoFuelInRiverDiesOfFuel ==
    [][(Runs("PlayerStatusUpdater") /\ world.player.fuel = 0) =>
          world'.player.status =
             IF /\ PlayerBorders.start <= world.player.location.column
                /\ world.player.location.column < PlayerBorders.end
             THEN "DeadFuel" ELSE "DeadGround"]_vars

(* The status check ran with no fuel left and the player outside the       *)
(* river: the cause of death is the ground                                 *)
NoFuelOnGround ==
    /\ JustRan("PlayerStatusUpdater")
    /\ world.player.fuel = 0
    /\ ~IsInRiver(world.map, world.player.location)
    /\ world.player.status = "DeadGround"

(* C18: whenever the status check runs with the player's column outside    *)
(* the half-open range of the borders of the player's line, the player is  *)
(* Dead(Ground) after it, whatever the fuel; with the column inside and    *)
(* fuel left the check leaves the status as it is.                         *)
GroundLaw ==
    [][Runs("PlayerStatusUpdater") =>
          LET c == world.player.location.column IN
          /\ (c < PlayerBorders.start \/ c >= PlayerBorders.end) =>
                world'.player.status = "DeadGround"
          /\ (PlayerBorders.start <= c /\ c < PlayerBorders.end
                  /\ world.player.fuel > 0) =>
                world'.player.status = world.player.status]_vars

(* The status check ran with fuel left and the player on the column of the *)
(* right border, the first one outside the river                           *)
DiedOnRightBorder ==
    /\ JustRan("PlayerStatusUpdater")
    /\ world.player.fuel > 0
    /\ world.player.location.column = PlayerBorders.end
    /\ world.player.status = "DeadGround"

(* C19: the input is polled in every iteration of the loop, whether the   *)
(* world is Fluent or Solid: an iteration that reaches its end has run the *)
(* keyboard handler in its tick (so that a pause key can toggle the status *)
(* back and a quit key can end the game).                                  *)
PolledEveryIteration ==
    [][(pc = "tail" /\ pc' = "loop") =>
          \E k \in DOMAIN log :
             /\ log[k].tick = world.elapsed_loops
             /\ log[k].fired
             /\ log[k].ev.handler.kind = "Keyboard"]_vars

(* The evaluations of events that wait for GameStarted *)
StartChecks == {k \in DOMAIN log : log[k].ev.trigger.kind = "GameStarted"}

(* C20: an evaluation of a GameStarted trigger is true exactly when it     *)
(* happens in tick 0.  A one-shot GameStarted event registered before the  *)
(* loop is evaluated in tick 0 only, where it fires: once the first pass   *)
(* is over it has run exactly once and is no longer in the list.  A        *)
(* GameStarted event registered by a handler is first evaluated in a later *)
(* tick and never fires.                                                   *)
GameStartedLaw ==
    /\ \A k \in StartChecks : log[k].fired <=> log[k].tick = 0
    /\ \A k \in StartChecks :
          (~log[k].ev.deferred /\ ~log[k].ev.is_continues) =>
             /\ log[k].tick = 0
             /\ log[k].fired
             /\ CompletedPass(0) =>
                   \A i \in DOMAIN ActiveList : ActiveList[i].id # log[k].ev.id
    /\ \A i \in DOMAIN events :
          (/\ events[i].trigger.kind = "GameStarted"
           /\ ~events[i].deferred
           /\ CompletedPass(0)) => Evaluated(events[i].id, 0)
    /\ \A k \in StartChecks : log[k].ev.deferred => (log[k].tick > 0 /\ ~log[k].fired)

(* A GameStarted event registered before the loop fired in tick 0, and one *)
(* registered by a handler in tick 0 was evaluated in tick 2 and did not   *)
(* fire                                                                    *)
StartedOnceOnly ==
    /\ \E k \in StartChecks : ~log[k].ev.deferred /\ log[k].fired /\ log[k].tick = 0
    /\ \E k \in StartChecks : log[k].ev.deferred /\ ~log[k].fired /\ log[k].tick = 2

----------------------------------------------------------------------------
(* The map *)

(* C21: for a map built with max_l >= 1 the window river_parts holds       *)
(* exactly max_l entries at any time, so it is never empty.                *)
WindowFull ==
    world.map.max_l >= 1 => Len(world.map.river_parts) = world.map.max_l

(* C22: in the modes Random and ConstWidth with max_center_diff = d, for   *)
(* every draw of the random generator the center of the target from_map    *)
(* returns is at most d away from the front line's center and is a column  *)
(* of the terminal; where the draw is more than d away, the subtraction    *)
(* front - d does not go below 0 and the addition front + d stays below    *)
(* max_c.                                                                  *)
DriftBound ==
    LET map == world.map
        m == map.river_mode.value
    IN  (m.kind \in {"Random", "ConstWidth"} /\ Len(map.river_parts) > 0) =>
           \A rw \in RngWidths(map), rc \in RngCenters(map) :
              LET f == Front(map).center_c
                  d == m.max_center_diff
                  t == FromMap(map, rw, rc)
              IN  /\ AbsDiff(t.center_c, f) <= d
                  /\ 0 <= t.center_c /\ t.center_c < map.max_c
                  /\ (AbsDiff(rc, f) > d /\ rc < f) =>
                        (f - d >= 0 /\ t.center_c = f - d)
                  /\ (AbsDiff(rc, f) > d /\ rc > f) =>
                        (f + d < map.max_c /\ t.center_c = f + d)

(* An update generated a target from a draw too far from the front line    *)
(* (now the second line): its center is exactly d away                     *)
TargetClamped ==
    LET map == world.map
        m == map.river_mode.value
    IN  /\ idx > 0
        /\ Len(map.river_parts) >= 2
        /\ m.kind \in {"Random", "ConstWidth"}
        /\ map.next_point = IF map.max_l >= map.change_rate
                            THEN map.max_l - map.change_rate ELSE 0
        /\ AbsDiff(map.target_river.center_c, map.river_parts[2].center_c)
              = m.max_center_diff

(* The step is a call of Map::update that returns *)
Updates == pc = "map" /\ idx' = idx + 1 /\ ~world'.panicked

(* C23: in every update, for the width and for the center, when the front  *)
(* line's value differs from the target's the new front line's value is    *)
(* strictly closer to the target than the old one and is not beyond it.    *)
SmoothingApproaches ==
    [][Updates =>
          LET cur == Front(world.map)
              tgt == world'.map.target_river
              new == Front(world'.map)
              closer(c, t, n) ==
                 c # t => /\ AbsDiff(n, t) < AbsDiff(c, t)
                          /\ (c < t => n <= t)
                          /\ (c > t => n >= t)
          IN  /\ closer(cur.width, tgt.width, new.width)
              /\ closer(cur.center_c, tgt.center_c, new.center_c)]_vars

(* C24: for every line of the window, with c and w the center and width   *)
(* of its part, the borders are max(c - w/2, 0) and min(c + w/2, max_c)    *)
(* with w/2 the integer half, and is_in_river holds of a column on that    *)
(* line exactly when the column is at or right of the first and left of    *)
(* the second.                                                             *)
BordersLaw ==
    LET map == world.map IN
    \A i \in DOMAIN map.river_parts :
       LET c == map.river_parts[i].center_c
           h == map.river_parts[i].width \div 2
           lo == IF c - h > 0 THEN c - h ELSE 0
           hi == IF c + h < map.max_c THEN c + h ELSE map.max_c
       IN  /\ RiverBordersAt(map, i - 1) = [start |-> lo, end |-> hi]
           /\ \A col \in 0..map.max_c :
                 IsInRiver(map, LocationNew(col, i - 1)) <=> (lo <= col /\ col < hi)

(* After an update the window holds a line whose river is wider than the   *)
(* terminal on both sides, and one that is not                             *)
BothEndsCut ==
    /\ idx > 0
    /\ \E i \in DOMAIN world.map.river_parts :
          LET p == world.map.river_parts[i] IN
          p.center_c - p.width \div 2 < 0 /\ p.center_c + p.width \div 2 > world.map.max_c
    /\ \E i \in DOMAIN world.map.river_parts :
          LET p == world.map.river_parts[i] IN
          p.center_c - p.width \div 2 > 0 /\ p.center_c + p.width \div 2 < world.map.max_c

(* C25 as stated: a change_river_mode directly followed by a               *)
(* restore_river_mode leaves the active mode equal to the mode that was    *)
(* active before the change.                                               *)
RestoreGivesPrior ==
    \A k \in 1..(Len(log) - 1) :
       (log[k].op = "change" /\ log[k + 1].op = "restore") =>
          log[k + 1].after.value = log[k].before.value

(* C25: restore_river_mode leaves the active mode equal to the stored      *)
(* baseline, the mode the map was built with; that is the mode active      *)
(* before a change when no other change was in force.  No change or        *)
(* restore modifies the baseline, and a restore after a restore changes    *)
(* nothing.                                                                *)
RestoreGivesBaseline ==
    \A k \in DOMAIN log :
       /\ log[k].after.solid_value = log[k].before.solid_value
       /\ log[k].op = "change" => log[k].after.value \in RiverModes
       /\ log[k].op = "restore" =>
             /\ log[k].after.value = log[k].before.solid_value
             /\ log[k].before.value = log[k].before.solid_value =>
                   log[k].after = log[k].before
       /\ (k < Len(log) /\ log[k].op = "change" /\ log[k + 1].op = "restore"
              /\ log[k].before.value = log[k].before.solid_value) =>
             log[k + 1].after.value = log[k].before.value
       /\ (k < Len(log) /\ log[k].op = "restore" /\ log[k + 1].op = "restore") =>
             log[k + 1].after = log[k].after

(* A change on top of another change, then a restore: the active mode is   *)
(* the baseline, not the first override                                    *)
RestoredPastOverride ==
    /\ Len(log) = 3
    /\ log[1].op = "change" /\ log[2].op = "change" /\ log[3].op = "restore"
    /\ log[2].before.value # log[2].after.value
    /\ world.map.river_mode.value = log[1].before.value
    /\ world.map.river_mode.value # log[2].before.value

----------------------------------------------------------------------------
(* The player's counters *)

(* C26: no step lowers player.score.                                       *)
ScoreNeverFalls ==
    [][world'.player.score >= world.player.score]_vars

(* C28: once the trigger of a Traveled event has evaluated true, every     *)
(* later evaluation of it in the run is true.                              *)
TraveledSticky ==
    \A j, k \in DOMAIN log :
        ( /\ j < k
          /\ log[j].ev.trigger.kind = "Traveled"
          /\ log[k].ev.id = log[j].ev.id
          /\ log[j].fired ) => log[k].fired

(* C27: the player's bullet list never holds more than one bullet.        *)
AtMostOneBullet == Len(world.player.bullets) <= 1

(* The keyboard handler ran in a tick in which the bullet of an earlier    *)
(* tick is still in flight                                                 *)
BulletInFlight ==
    /\ JustRan("Keyboard")
    /\ world.player.status = "Alive"
    /\ Len(world.player.bullets) = 1
    /\ world.player.bullets[1].energy < max_l(world) \div 4

----------------------------------------------------------------------------
(* The loop's two arms *)

(* C29: a loop iteration that finds the world Solid evaluates no trigger   *)
(* and runs no handler (the history does not grow, no pass starts), and    *)
(* leaves the active list and the whole world (entities, map, bullets,     *)
(* fuel, score, traveled, timers, signals, new_events) as they were; only  *)
(* the tick counter moves.                                                 *)
SolidFrozen ==
    [][ (world.status = "Solid" /\ pc \in {"loop", "tail"}) =>
            /\ log' = log
            /\ pc' \notin {"run", "drain"}
            /\ events' = events
            /\ world' = [world EXCEPT !.elapsed_loops = world'.elapsed_loops] ]_vars

(* A whole iteration has passed in the Solid arm since the last trigger    *)
(* evaluation, with an entity on the map                                   *)
SolidIterationDone ==
    /\ pc = "loop"
    /\ world.status = "Solid"
    /\ log # << >>
    /\ world.elapsed_loops >= log[Len(log)].tick + 2
    /\ world.entities # << >>

(* C30: the drain of a Fluent tick leaves events equal to what the pass    *)
(* retained followed by new_events in queue order, and new_events empty;   *)
(* no event is in events twice; new_events is empty whenever the loop is   *)
(* past the drain (at the end of the tick and at the head of the next).    *)
DrainLaw ==
    [][ /\ pc = "drain" =>
              /\ events' = retained \o world.new_events
              /\ world'.new_events = << >>
              /\ \A i, j \in 1..Len(events') :
                     events'[i].id = events'[j].id => i = j
        /\ pc' \in {"tail", "loop"} => world'.new_events = << >> ]_vars

(* The drain has put two events queued in this tick's pass behind a        *)
(* retained one, in the order they were queued                             *)
TwoDrained ==
    /\ pc = "tail"
    /\ \E i \in 1..(Len(events) - 2) :
          /\ ~events[i].deferred
          /\ events[i + 1].deferred /\ events[i + 1].born = world.elapsed_loops
          /\ events[i + 2].deferred /\ events[i + 2].born = world.elapsed_loops
          /\ events[i + 1].id < events[i + 2].id

----------------------------------------------------------------------------
(* Timers and their events *)

(* The positions of the events of a list that wait for timer key *)
EventsOn(key, all) ==
    {i \in DOMAIN all : all[i].trigger = Trigger("TimerElapsed", key)}

(* The evaluation just recorded is of the event that was set up together   *)
(* with its timer: the key was handed out, and the event is the first     *)
(* registered for it, so the first ever evaluated for it                   *)
OwnEvaluation(h) ==
    LET e == h[Len(h)]
        on == {j \in DOMAIN h : h[j].ev.trigger = e.ev.trigger}
    IN  /\ e.ev.trigger.kind = "TimerElapsed"
        /\ e.ev.trigger.arg \in 1..world.uuid
        /\ \A j \in on : (\A i \in on : j <= i) => h[j].ev.id = e.ev.id

----------------------------------------------------------------------------
(* The map's countdown *)

(* The countdown less the change rate, not below 0 *)
CountedDown(map, from) == IF from >= map.change_rate THEN from - map.change_rate ELSE 0

(* The targets from_map can return on this map *)
Targets(map) == {FromMap(map, rw, rc) : rw \in RngWidths(map), rc \in RngCenters(map)}

(* C32 as stated: an update that finds the countdown above zero leaves the *)
(* target unchanged and takes change_rate off next_point (stopping at 0);  *)
(* only an update that finds it at zero resets it to max_l.                *)
RetargetsOnlyAtZero ==
    [][ (Updates /\ world.map.next_point # 0) =>
            /\ world'.map.target_river = world.map.target_river
            /\ world'.map.next_point = CountedDown(world.map, world.map.next_point) ]_vars

(* C32: an update that finds next_point above change_rate leaves the       *)
(* target unchanged and takes change_rate off next_point; an update that   *)
(* finds next_point <= change_rate takes a new target from from_map and    *)
(* leaves next_point at max_l less change_rate (stopping at 0).            *)
RetargetLaw ==
    [][ Updates =>
            IF world.map.next_point > world.map.change_rate
            THEN /\ world'.map.target_river = world.map.target_river
                 /\ world'.map.next_point = world.map.next_point - world.map.change_rate
            ELSE /\ world'.map.target_river \in Targets(world.map)
                 /\ world'.map.next_point = CountedDown(world.map, world.map.max_l) ]_vars

(* An update has taken a new target on a map whose countdown never is at   *)
(* zero                                                                    *)
RetargetedAboveZero ==
    /\ pc = "map"
    /\ idx >= 2
    /\ world.map.max_l > world.map.change_rate
    /\ world.map.next_point = world.map.max_l - world.map.change_rate
    /\ world.map.target_river #
          RiverPartNew(world.map.river_mode.solid_value.max_width, world.map.max_c \div 2)

----------------------------------------------------------------------------
(* Bullets and entities on the move *)

(* A bullet after its move: two lines up, one energy less *)
Flown(b) == [b EXCEPT !.location.line = @ - 2, !.energy = @ - 1]

(* The bullet is one move_bullets keeps: it has energy, is on line 2 or    *)
(* below, and lands between the river borders of its new line              *)
Flies(w, b) ==
    /\ b.energy # 0
    /\ b.location.line >= 2
    /\ LET r == RiverBordersAt(w.map, b.location.line - 2)
       IN  r.start <= b.location.column /\ b.location.column < r.end

EntityMoveLaw ==
    [][ (pc = "entities" /\ idx' = idx + 1) =>
            LET kept == SelectSeq(world.entities,
                                  LAMBDA e : e.location.line + 1 < max_l(world))
            IN  /\ world'.entities =
                      [i \in 1..Len(kept) |-> [kept[i] EXCEPT !.location.line = @ + 1]]
                /\ \A i \in DOMAIN world'.entities :
                      LET e == world'.entities[i] IN
                      /\ e.location.line \in 0..(max_l(world) - 1)
                      /\ e.location.line = idx' - log[e.id]
                      /\ idx' - log[e.id] < max_l(world) ]_vars

(* The first entity has come down all the lines and the pass after that    *)
(* has removed it                                                          *)
ScrolledOut ==
    /\ pc = "entities"
    /\ log # << >>
    /\ idx = log[1] + max_l(world)
    /\ \A i \in DOMAIN world.entities : world.entities[i].id # 1

----------------------------------------------------------------------------
(* The opening *)

(* The evaluations at which the trailing handler of the opening ran *)
OpeningEnds ==
    {i \in DOMAIN log : log[i].fired /\ log[i].ev.handler.kind = "OpeningEnd"}

(* C35, first half: until the trailing handler of the opening's popup      *)
(* series has run, no enemy and no fuel entity has been created.           *)
NoSpawnInOpening == OpeningEnds = {} => world.nid = 0

----------------------------------------------------------------------------
(* The end of the game and the entities' accounts *)

(* C36: once player.status is Dead(cause) or Quit, no step changes it to   *)
(* another value.                                                          *)
EndStateStable ==
    [][world.player.status # "Alive" => world'.player.status = world.player.status]_vars

(* The entities the bullet loop of update_entities_status finds within the *)
(* margin of a bullet, after the purge at its start                        *)
UnderFire(w) ==
    LET es == PurgeDead(w.entities) IN
    {i \in DOMAIN es :
        \E j \in DOMAIN w.player.bullets :
           HitWithMargin(w.player.bullets[j].location, es[i].location, 1, 0, 1, 0)}

(* C37: whenever update_entities_status runs, every enemy within the       *)
(* margin of a bullet has armor 1 or more (and is neither DeadBody nor     *)
(* Dead).                                                                  *)
ArmorNeverUnderflows ==
    Runs("UpdateEntitiesStatus") =>
        \A i \in UnderFire(world) :
           LET e == PurgeDead(world.entities)[i] IN
           e.entity_type.kind = "Enemy" => e.entity_type.armor >= 1 /\ e.status = "Alive"

(* C38: a run of update_entities_status adds to the score only for         *)
(* entities that were Alive: if the score changes, an Alive entity was     *)
(* within the margin of a bullet, and for each entity not Alive within the *)
(* margin nothing is added.                                                *)
ScoredOnlyAlive ==
    [][ (Runs("UpdateEntitiesStatus") /\ ~world'.panicked) =>
            LET es == PurgeDead(world.entities)
                alive == {i \in UnderFire(world) : es[i].status = "Alive"}
            IN  world'.player.score - world.player.score
                   <= 20 * Cardinality(alive) * Len(world.player.bullets) ]_vars

(* C39: Player::go_down is never executed with traveled = 0: a step of    *)
(* the keyboard handler that moves the player a line down, or panics in    *)
(* the attempt, starts with traveled at 1 or more.                         *)
GoDownAboveZero ==
    [][ ( /\ Runs("Keyboard")
          /\ world.player.status = "Alive"
          /\ \/ world'.player.location.line > world.player.location.line
             \/ world'.panicked /\ world.player.traveled # U16 - 1 )
        => world.player.traveled >= 1 ]_vars

----------------------------------------------------------------------------
(* A popup series without popups *)

(* The evaluations at which popup_series was called with no popup *)
EmptySeriesCalls ==
    {i \in DOMAIN log : log[i].fired /\ log[i].ev.handler.kind = "PopupSeries"
                                     /\ log[i].ev.handler.popups = << >>}

(* The events that wait for a signal, active or queued *)
SignalWaiters ==
    LET all == ActiveList \o world.new_events
    IN  {all[i].id : i \in {j \in DOMAIN all : all[j].trigger.kind = "Signal"}}

(* C40: the step in which popup_series is called with no popup adds no     *)
(* drawing, no timer and no signal, and queues one one-shot event on a     *)
(* Signal; no such event's trigger is ever true, so that the trailing      *)
(* handler never runs, and every one of them is still in the list.         *)
EmptySeriesLaw ==
    [][ /\ (Len(log') > Len(log) /\ Len(log') \in EmptySeriesCalls') =>
              /\ world'.custom_drawings = world.custom_drawings
              /\ world'.drawn = world.drawn
              /\ world'.timers = world.timers
              /\ world'.signals = world.signals
              /\ Len(world'.new_events) = Len(world.new_events) + 1
              /\ LET e == world'.new_events[Len(world'.new_events)]
                 IN  e.trigger.kind = "Signal" /\ ~e.is_continues
        /\ world'.signals = {}
        /\ \A i \in DOMAIN log' : log'[i].ev.trigger.kind = "Signal" => ~log'[i].fired
        /\ Cardinality(SignalWaiters') = Cardinality(EmptySeriesCalls') ]_vars

(* The event of a series without popups has been passed over in a tick    *)
(* after the one of the call, next to a popup of another call, and is      *)
(* still in the list                                                       *)
EmptySeriesWaits ==
    /\ pc = "tail"
    /\ world.drawn # << >>
    /\ \E i \in DOMAIN log, c \in EmptySeriesCalls :
          /\ log[i].ev.trigger.kind = "Signal"
          /\ log[i].tick >= log[c].tick + 2
          /\ log[i].ev.id \in SignalWaiters

====
